---- MODULE Spec2Model ----
(***************************************************************************)
(* A model of the mandoline-node client: the facade (client.ts), the       *)
(* validators (validation.ts), the request pipeline                        *)
(* (connection-manager.ts), the error classifier (errors.ts) and the       *)
(* naming converter (utils.ts).                                            *)
(*                                                                         *)
(* JavaScript values are records of one shape, [t, s, n, frac, kids]:      *)
(*   t     the typeof/null/array tag                                       *)
(*   s     the characters of a string (a sequence of one-symbol strings)   *)
(*   n     the integer part of a number, 1/0 for a boolean                 *)
(*   frac  TRUE when a number is n + 0.5                                   *)
(*   kids  the entries of an array or object, in insertion order, each     *)
(*         [k |-> key characters, v |-> value]; an array's keys are <<>>   *)
(***************************************************************************)
EXTENDS Integers, Sequences, FiniteSets, TLC

\* ------------------------------------------------------------------ bounds

\* the largest timeout (in clock ticks) a client is constructed with
MaxTimeout == 2
\* the largest number of metrics handed to evaluate
MaxMetrics == 2

\* ------------------------------------------------------------ JS values

JsUndefined == [t |-> "undefined", s |-> <<>>, n |-> 0, frac |-> FALSE, kids |-> <<>>]
JsNull == [t |-> "null", s |-> <<>>, n |-> 0, frac |-> FALSE, kids |-> <<>>]
JsFunction == [t |-> "function", s |-> <<>>, n |-> 0, frac |-> FALSE, kids |-> <<>>]
JsBigInt == [t |-> "bigint", s |-> <<>>, n |-> 0, frac |-> FALSE, kids |-> <<>>]
JsString(chars) == [t |-> "string", s |-> chars, n |-> 0, frac |-> FALSE, kids |-> <<>>]
JsNumber(i) == [t |-> "number", s |-> <<>>, n |-> i, frac |-> FALSE, kids |-> <<>>]
JsHalf(i) == [t |-> "number", s |-> <<>>, n |-> i, frac |-> TRUE, kids |-> <<>>]
JsBool(b) == [t |-> "boolean", s |-> <<>>, n |-> IF b THEN 1 ELSE 0, frac |-> FALSE, kids |-> <<>>]
JsArray(items) ==
  [t |-> "array", s |-> <<>>, n |-> 0, frac |-> FALSE,
   kids |-> [i \in 1..Len(items) |-> [k |-> <<>>, v |-> items[i]]]]
JsObject(entries) == [t |-> "object", s |-> <<>>, n |-> 0, frac |-> FALSE, kids |-> entries]
Entry(key, value) == [k |-> key, v |-> value]
\* new Map(): an object that is not a plain one (s names its class), with no
\* enumerable property of its own
JsMap == [t |-> "object", s |-> <<"Map">>, n |-> 0, frac |-> FALSE, kids |-> <<>>]

\* typeof v === "object" (null, arrays and objects)
TypeofObject(v) == v.t \in {"null", "array", "object"}
\* !v
Falsy(v) ==
  \/ v.t \in {"undefined", "null"}
  \/ v.t = "string" /\ v.s = <<>>
  \/ v.t = "number" /\ v.n = 0 /\ ~v.frac
  \/ v.t = "boolean" /\ v.n = 0

HasKey(obj, key) == \E i \in 1..Len(obj.kids) : obj.kids[i].k = key
\* obj[key] / obj.key : undefined when the key is absent
Get(obj, key) ==
  IF HasKey(obj, key)
  THEN obj.kids[CHOOSE i \in 1..Len(obj.kids) : obj.kids[i].k = key].v
  ELSE JsUndefined
\* obj[key] = value : an existing key keeps its place
SetKey(entries, key, value) ==
  IF \E i \in 1..Len(entries) : entries[i].k = key
  THEN [i \in 1..Len(entries) |->
          IF entries[i].k = key THEN Entry(key, value) ELSE entries[i]]
  ELSE Append(entries, Entry(key, value))

\* x > m, x < m, x <= m for a number that is n or n + 0.5
NumGreater(v, m) == IF v.frac THEN v.n >= m ELSE v.n > m
NumLess(v, m) == v.n < m
\* x < m where the code has x <= m
NumLessOnly(v, m) == v.n < m
NumLessEq(v, m) == IF v.frac THEN v.n < m ELSE v.n <= m
\* Number.isInteger
IsInteger(v) == v.t = "number" /\ ~v.frac

\* --------------------------------------------------------------- strings

\* A string is a sequence of symbols: a symbol is one character, or a run of
\* characters that holds no uppercase letter, underscore or blank (or that
\* the code never looks inside, as a UUID or a message). The character that
\* follows an underscore is always a symbol of its own.
UpperSeq == <<"A", "B", "C", "D", "E", "F", "G", "H", "I", "J", "K", "L", "M",
              "N", "O", "P", "Q", "R", "S", "T", "U", "V", "W", "X", "Y", "Z">>
LowerSeq == <<"a", "b", "c", "d", "e", "f", "g", "h", "i", "j", "k", "l", "m",
              "n", "o", "p", "q", "r", "s", "t", "u", "v", "w", "x", "y", "z">>
ToLowerChar(c) ==
  IF \E i \in 1..Len(UpperSeq) : UpperSeq[i] = c
  THEN LowerSeq[CHOOSE i \in 1..Len(UpperSeq) : UpperSeq[i] = c] ELSE c
ToUpperChar(c) ==
  IF \E i \in 1..Len(LowerSeq) : LowerSeq[i] = c
  THEN UpperSeq[CHOOSE i \in 1..Len(LowerSeq) : LowerSeq[i] = c] ELSE c

RECURSIVE TrimLeft(_)
TrimLeft(chars) ==
  IF chars # <<>> /\ Head(chars) = " " THEN TrimLeft(Tail(chars)) ELSE chars
RECURSIVE TrimRight(_)
TrimRight(chars) ==
  IF chars # <<>> /\ chars[Len(chars)] = " "
  THEN TrimRight(SubSeq(chars, 1, Len(chars) - 1))
  ELSE chars
\* String.prototype.trim
Trim(chars) == TrimRight(TrimLeft(chars))

\* ------------------------------------------------------- naming converter

\* no key is skipped
NO_SKIP_KEYS == {}
SKIP_KEYS == {<<"properties">>}

\* a conversion that leaves every key as it is
toCamelCaseIdentity(str) == str
\* str.replace(/_([a-z])/g, (g) => g[1].toUpperCase())
RECURSIVE toCamelCase(_)
toCamelCase(str) ==
  IF Len(str) >= 2 /\ str[1] = "_" /\ ToUpperChar(str[2]) # str[2]
  THEN <<ToUpperChar(str[2])>> \o toCamelCase(SubSeq(str, 3, Len(str)))
  ELSE IF str = <<>> THEN <<>>
  ELSE <<Head(str)>> \o toCamelCase(Tail(str))

\* str.replace(/[A-Z]/g, (letter) => `_${letter.toLowerCase()}`)
RECURSIVE toSnakeCase(_)
toSnakeCase(str) ==
  IF str = <<>> THEN <<>>
  ELSE IF ToLowerChar(Head(str)) # Head(str)
  THEN <<"_", ToLowerChar(Head(str))>> \o toSnakeCase(Tail(str))
  ELSE <<Head(str)>> \o toSnakeCase(Tail(str))

RECURSIVE objectToCamelCase(_)
RECURSIVE CamelEntries(_, _)
\* the reduce over Object.keys(obj) of objectToCamelCase
CamelEntries(entries, result) ==
  IF entries = <<>> THEN result
  ELSE LET key == Head(entries).k
           camelKey == IF key \in SKIP_KEYS THEN key ELSE toCamelCase(key)
           value == IF key \in SKIP_KEYS
                    THEN Head(entries).v
                    ELSE objectToCamelCase(Head(entries).v)
       IN CamelEntries(Tail(entries), SetKey(result, camelKey, value))
objectToCamelCase(obj) ==
  IF ~TypeofObject(obj) \/ obj.t = "null" THEN obj
  ELSE IF obj.t = "array"
  THEN [obj EXCEPT !.kids =
          [i \in 1..Len(obj.kids) |-> Entry(<<>>, objectToCamelCase(obj.kids[i].v))]]
  ELSE JsObject(CamelEntries(obj.kids, <<>>))

RECURSIVE objectToSnakeCase(_)
RECURSIVE SnakeEntries(_, _)
\* the reduce over Object.keys(obj) of objectToSnakeCase
SnakeEntries(entries, result) ==
  IF entries = <<>> THEN result
  ELSE LET key == Head(entries).k
           snakeKey == IF key \in SKIP_KEYS THEN key ELSE toSnakeCase(key)
           value == IF key \in SKIP_KEYS
                    THEN Head(entries).v
                    ELSE objectToSnakeCase(Head(entries).v)
       IN SnakeEntries(Tail(entries), SetKey(result, snakeKey, value))
objectToSnakeCase(obj) ==
  IF ~TypeofObject(obj) \/ obj.t = "null" THEN obj
  ELSE IF obj.t = "array"
  THEN [obj EXCEPT !.kids =
          [i \in 1..Len(obj.kids) |-> Entry(<<>>, objectToSnakeCase(obj.kids[i].v))]]
  ELSE JsObject(SnakeEntries(obj.kids, <<>>))

\* { ...data } then objectToSnakeCase
makeSerializable(data) == objectToSnakeCase(data)

\* --------------------------------------------------------- HTTP responses

Word(w) == JsString(<<w>>)

\* A response body: its raw text, whether JSON.parse accepts the text,
\* and the value JSON.parse gives for it.
Body(text, json, value) == [text |-> text, json |-> json, value |-> value]
\* node-fetch Response: status, statusText, ok, url, type and the body
HttpResponse(status, statusText, body) ==
  [status |-> status, statusText |-> statusText,
   ok |-> (status >= 200 /\ status < 300), body |-> body]
NoResponse == HttpResponse(0, "", Body("", FALSE, JsUndefined))

\* try { JSON.parse(text) } catch { undefined }
safeJSONParse(body) == IF body.json THEN body.value ELSE JsUndefined

\* ------------------------------------------------------ error classifier

MandolineErrorType ==
  {"ValidationError", "RateLimitExceeded", "TimeoutError", "HTTPError",
   "RequestError", "GenericError"}
Kind(k) == Word(k)

\* A thrown value: cls is the class of the object ("none": nothing thrown),
\* name its Error.name; kind and the rest are the details of a MandolineError.
Thrown(cls, name, kind, message, stack) ==
  [cls |-> cls, name |-> name, kind |-> kind, message |-> message,
   stack |-> stack, errors |-> JsUndefined, statusCode |-> 0, statusText |-> "",
   responseText |-> JsUndefined, responseJSON |-> JsUndefined,
   value |-> JsUndefined]
\* a thrown value that is no Error: throw value
NonError(value) == [Thrown("value", "", JsUndefined, JsUndefined, "") EXCEPT !.value = value]
NoError == Thrown("none", "", JsUndefined, JsUndefined, "")

\* new Error(message), new TypeError(message), node-fetch's AbortError/FetchError
PlainError(message) == Thrown("Error", "Error", JsUndefined, Word(message), "at caller")
TypeError(message) == Thrown("TypeError", "TypeError", JsUndefined, Word(message), "at caller")
AbortError == Thrown("AbortError", "AbortError", JsUndefined, Word("The user aborted a request."), "at fetch")
FetchError(message) == Thrown("FetchError", "FetchError", JsUndefined, Word(message), "at fetch")

\* err instanceof MandolineError (ValidationError extends MandolineError)
IsMandolineError(err) == err.cls \in {"MandolineError", "ValidationError"}
\* err instanceof Error
IsError(err) ==
  err.cls \in {"MandolineError", "ValidationError", "Error", "TypeError",
               "AbortError", "FetchError"}

\* class MandolineError: super(details.message); this.details = details
MandolineError(details) ==
  [details EXCEPT !.cls = "MandolineError", !.name = "Error"]

\* class ValidationError extends MandolineError
ValidationError(message) ==
  [MandolineError(Thrown("", "", Kind("ValidationError"), Word(message), "at validator"))
     EXCEPT !.cls = "ValidationError", !.errors = Word("Unknown validation error")]

RECURSIVE StringifyThrows(_)
\* JSON.stringify throws a TypeError on a BigInt
StringifyThrows(value) ==
  \/ value.t = "bigint"
  \/ \E i \in 1..Len(value.kids) : StringifyThrows(value.kids[i].v)

RECURSIVE JsonStringify(_)
RECURSIVE StringifyEntries(_)
\* JSON.stringify drops the undefined and function members of an object
StringifyEntries(entries) ==
  IF entries = <<>> THEN <<>>
  ELSE IF Head(entries).v.t \in {"undefined", "function"}
  THEN StringifyEntries(Tail(entries))
  ELSE <<Entry(Head(entries).k, JsonStringify(Head(entries).v))>>
       \o StringifyEntries(Tail(entries))
\* the JSON text, as the value a parser reads back from it
JsonStringify(value) ==
  IF value.t = "array"
  THEN [value EXCEPT !.kids =
          [i \in 1..Len(value.kids) |->
             IF value.kids[i].v.t \in {"undefined", "function"}
             THEN Entry(<<>>, JsNull)
             ELSE Entry(<<>>, JsonStringify(value.kids[i].v))]]
  ELSE IF value.t = "object"
  THEN JsObject(StringifyEntries(value.kids))
  ELSE value
\* JSON.stringify(value) as a string value: undefined for undefined and for
\* a function
JSONstringify(value) ==
  IF value.t \in {"undefined", "function"} THEN JsUndefined
  ELSE [t |-> "string", s |-> <<"JSON">>, n |-> 0, frac |-> FALSE,
        kids |-> <<Entry(<<>>, JsonStringify(value))>>]

\* a || that always gives its right side
OrElseRight(a, b) == b
\* a || b
OrElse(a, b) == IF Falsy(a) THEN b ELSE a

createHTTPErrorDetails(response) ==
  LET responseText == Word(response.body.text)
      responseJSON == safeJSONParse(response.body)
      detail == Get(OrElse(responseJSON, JsObject(<<>>)), <<"detail">>)
      fields == OrElse(detail, JsObject(<<>>))
      type == Get(fields, <<"type">>)
      message == Get(fields, <<"message">>)
      additional_info == Get(fields, <<"additional_info">>)
      base == Thrown("", "", type, message, "")
  IN CASE type = Kind("ValidationError") ->
            [base EXCEPT !.message = OrElse(message, Word("Validation error")),
                         !.errors = OrElse(Get(additional_info, <<"errors">>),
                                           Word("Unknown validation error"))]
       [] type = Kind("RateLimitExceeded") ->
            [base EXCEPT !.message = OrElse(message, Word("Rate limit exceeded"))]
       [] type = Kind("RequestError") ->
            [base EXCEPT !.message = OrElse(message, Word("Request error occurred"))]
       [] OTHER ->
            [base EXCEPT
               !.kind = OrElse(type, Kind("HTTPError")),
               !.message = OrElse(message,
                  JsString(<<"HTTP Error: ", ToString(response.status), " ",
                             response.statusText>>)),
               !.statusCode = response.status,
               !.statusText = response.statusText,
               !.responseText = responseText,
               !.responseJSON = responseJSON]

createErrorDetails(error) ==
  IF error.name = "AbortError"
  THEN Thrown("", "", Kind("TimeoutError"),
              Word("The request timed out. The API might be slow or unresponsive. Please try again later."),
              "")
  ELSE Thrown("", "", Kind("GenericError"), error.message, error.stack)

\* message: JSON.stringify(err), for a thrown value that is no Error
createGenericErrorDetails(err) ==
  Thrown("", "", Kind("GenericError"), JSONstringify(err.value), "")

\* a handleError without `if (err instanceof MandolineError) return err`
handleErrorClassifiesAgain(err) ==
  IF IsError(err) THEN MandolineError(createErrorDetails(err))
  ELSE IF StringifyThrows(err.value)
  THEN TypeError("Do not know how to serialize a BigInt")
  ELSE MandolineError(createGenericErrorDetails(err))

\* handleError for a thrown value that is no Response (nothing is awaited):
\* the MandolineError it returns, or the TypeError JSON.stringify throws
handleErrorThrown(err) ==
  IF IsMandolineError(err) THEN err
  ELSE IF IsError(err) THEN MandolineError(createErrorDetails(err))
  ELSE IF StringifyThrows(err.value)
  THEN TypeError("Do not know how to serialize a BigInt")
  ELSE MandolineError(createGenericErrorDetails(err))

\* handleError for a Response whose text() has resolved
handleErrorResponse(response) == MandolineError(createHTTPErrorDetails(response))

\* the console.error line of handleError: one line when a new error was
\* made with a truthy message, none when err passed through
handleErrorLog(passedThrough, made) ==
  IF passedThrough \/ Falsy(made.message) THEN <<>> ELSE <<made.message>>

\* ------------------------------------------------------------ validators

\* the keys of the models (models.ts), camelCase split at the capitals
kId == <<"id">>
kName == <<"name">>
kDescription == <<"description">>
kTags == <<"tags">>
kMetricId == <<"metric", "I", "d">>
kPrompt == <<"prompt">>
kResponse == <<"response">>
kProperties == <<"properties">>
kSkip == <<"skip">>
kLimit == <<"limit">>
kFilters == <<"filters">>

\* UUID texts: two version-4 UUIDs, a version-1 UUID, and no UUID at all
UuidA == "ae503bed-4ee9-490e-bc4b-ff1e749d6ff4"
UuidB == "73210187-84bc-4b95-ae75-5de0ad0e937c"
UuidV1 == "c232ab00-9414-11ec-b3c8-9f6bdeced846"
NotUuid == "invalid-uuid"

\* uuidValidate(uuid) && uuidVersion(uuid) === 4 (the uuid package)
isValidUUID(uuid) == uuid \in {<<UuidA>>, <<UuidB>>}

\* reading a property of null or undefined throws a TypeError
CannotRead(v) == v.t \in {"undefined", "null"}
ReadTypeError == TypeError("Cannot read properties of null or undefined")

\* the first error thrown by a sequence of checks run in order
FirstError(checks) ==
  IF \E i \in 1..Len(checks) : checks[i] # NoError
  THEN checks[CHOOSE i \in 1..Len(checks) :
                 /\ checks[i] # NoError
                 /\ \A j \in 1..(i - 1) : checks[j] = NoError]
  ELSE NoError

validateId(id, entity) ==
  IF Falsy(id) \/ id.t # "string" \/ ~isValidUUID(id.s)
  THEN ValidationError(entity \o " must be a valid UUID v4.")
  ELSE NoError

validateString(value, fieldName) ==
  IF value.t # "string" \/ Trim(value.s) = <<>>
  THEN ValidationError(fieldName \o " must be a non-empty string.")
  ELSE NoError

validateNullableStringArray(list, name) ==
  IF list.t = "undefined" \/ list.t = "null" THEN NoError
  ELSE IF list.t # "array" \/ \E i \in 1..Len(list.kids) : list.kids[i].v.t # "string"
  THEN ValidationError(name \o " must be an array of strings or null.")
  ELSE NoError

RECURSIVE isSerializable(_)
isSerializable(value) ==
  IF value.t = "undefined" THEN FALSE
  ELSE IF value.t \in {"null", "string", "number", "boolean"} THEN TRUE
  ELSE IF value.t = "array"
  THEN \A i \in 1..Len(value.kids) : isSerializable(value.kids[i].v)
  ELSE IF TypeofObject(value)
  THEN \A i \in 1..Len(value.kids) : isSerializable(value.kids[i].v)
  ELSE FALSE

validateNullableSerializableDict(obj, name) ==
  IF obj.t = "undefined" \/ obj.t = "null" THEN NoError
  ELSE IF ~TypeofObject(obj) \/ obj.t = "array"
  THEN ValidationError(name \o " must be an object or null.")
  ELSE IF \E i \in 1..Len(obj.kids) : ~isSerializable(obj.kids[i].v)
  THEN ValidationError(name \o ".<key> must be a serializable value.")
  ELSE NoError

\* a check that counts the keys of obj, whatever their values
checkAtLeastOneKeyGiven(obj) ==
  IF CannotRead(obj) THEN TypeError("Cannot convert undefined or null to object")
  ELSE IF Len(obj.kids) = 0
  THEN ValidationError("At least one field must be provided.")
  ELSE NoError

\* Object.values(obj).filter((value) => value !== undefined).length === 0
checkAtLeastOneFieldGiven(obj) ==
  IF CannotRead(obj) THEN TypeError("Cannot convert undefined or null to object")
  ELSE IF \A i \in 1..Len(obj.kids) : obj.kids[i].v.t = "undefined"
  THEN ValidationError("At least one field must be provided.")
  ELSE NoError

validateMetricCreate(metric) ==
  IF CannotRead(metric) THEN ReadTypeError
  ELSE FirstError(<<
         validateString(Get(metric, kName), "Metric name"),
         validateString(Get(metric, kDescription), "Metric description"),
         IF Get(metric, kTags).t # "undefined"
         THEN validateNullableStringArray(Get(metric, kTags), "Metric tags")
         ELSE NoError >>)

\* the skip and limit checks shared by the list validators; options?.x
\* reads undefined from a null or undefined options
OptionOf(options, key) == IF CannotRead(options) THEN JsUndefined ELSE Get(options, key)

validatePaginationParams(skip, limit) ==
  FirstError(<<
    IF skip.t # "undefined" /\ (skip.t # "number" \/ NumLess(skip, 0) \/ ~IsInteger(skip))
    THEN ValidationError("Skip must be a non-negative integer.")
    ELSE NoError,
    IF limit.t # "undefined"
       /\ (limit.t # "number" \/ NumLessEq(limit, 0) \/ ~IsInteger(limit))
    THEN ValidationError("Limit must be a positive integer.")
    ELSE NoError >>)

validateMetricsGet(options) ==
  FirstError(<<
    IF OptionOf(options, kSkip).t # "undefined"
       /\ (OptionOf(options, kSkip).t # "number" \/ NumLess(OptionOf(options, kSkip), 0)
           \/ ~IsInteger(OptionOf(options, kSkip)))
    THEN ValidationError("Skip must be a non-negative integer.")
    ELSE NoError,
    IF OptionOf(options, kLimit).t # "undefined"
       /\ (OptionOf(options, kLimit).t # "number" \/ NumLessEq(OptionOf(options, kLimit), 0)
           \/ ~IsInteger(OptionOf(options, kLimit)))
    THEN ValidationError("Limit must be a positive integer.")
    ELSE NoError,
    IF OptionOf(options, kTags).t # "undefined"
    THEN validateNullableStringArray(OptionOf(options, kTags), "Tags")
    ELSE NoError >>)

validateMetricUpdate(update) ==
  IF CannotRead(update) THEN ReadTypeError
  ELSE FirstError(<<
         IF Get(update, kName).t # "undefined"
         THEN validateString(Get(update, kName), "Metric name") ELSE NoError,
         IF Get(update, kDescription).t # "undefined"
         THEN validateString(Get(update, kDescription), "Metric description") ELSE NoError,
         IF Get(update, kTags).t # "undefined"
         THEN validateNullableStringArray(Get(update, kTags), "Metric tags") ELSE NoError,
         checkAtLeastOneFieldGiven(update) >>)

validateEvaluationCreate(evaluation) ==
  IF CannotRead(evaluation) THEN ReadTypeError
  ELSE FirstError(<<
         validateId(Get(evaluation, kMetricId), "Evaluation metricId"),
         validateString(Get(evaluation, kPrompt), "Evaluation prompt"),
         validateString(Get(evaluation, kResponse), "Evaluation response"),
         IF Get(evaluation, kProperties).t # "undefined"
         THEN validateNullableSerializableDict(Get(evaluation, kProperties),
                                               "Evaluation properties")
         ELSE NoError >>)

\* the filters check of validateEvaluationsGet; Object.entries(null) throws
validateFilters(filters) ==
  IF filters.t = "undefined" THEN NoError
  ELSE IF ~TypeofObject(filters) \/ filters.t = "array"
  THEN ValidationError("Filters must be an object.")
  ELSE IF filters.t = "null"
  THEN TypeError("Cannot convert undefined or null to object")
  ELSE IF \E i \in 1..Len(filters.kids) : ~isSerializable(filters.kids[i].v)
  THEN ValidationError("Filter '<key>' must be a serializable value.")
  ELSE NoError

validateEvaluationsGet(options) ==
  FirstError(<<
    IF OptionOf(options, kSkip).t # "undefined"
       /\ (OptionOf(options, kSkip).t # "number" \/ NumLess(OptionOf(options, kSkip), 0)
           \/ ~IsInteger(OptionOf(options, kSkip)))
    THEN ValidationError("Skip must be a non-negative integer.")
    ELSE NoError,
    IF OptionOf(options, kLimit).t # "undefined"
       /\ (OptionOf(options, kLimit).t # "number" \/ NumLessEq(OptionOf(options, kLimit), 0)
           \/ ~IsInteger(OptionOf(options, kLimit)))
    THEN ValidationError("Limit must be a positive integer.")
    ELSE NoError,
    IF OptionOf(options, kMetricId).t # "undefined"
    THEN validateId(OptionOf(options, kMetricId), "Evaluation metricId") ELSE NoError,
    IF OptionOf(options, kProperties).t # "undefined"
    THEN validateNullableSerializableDict(OptionOf(options, kProperties),
                                          "Evaluation properties")
    ELSE NoError,
    validateFilters(OptionOf(options, kFilters)) >>)

validateEvaluationUpdate(update) ==
  IF CannotRead(update) THEN ReadTypeError
  ELSE FirstError(<<
         IF Get(update, kProperties).t # "undefined"
         THEN validateNullableSerializableDict(Get(update, kProperties),
                                               "Evaluation properties")
         ELSE NoError,
         checkAtLeastOneFieldGiven(update) >>)

\* ------------------------------------------------------- client and state

MANDOLINE_API_BASE_URL == "https://mandoline-api.fly.dev/v1"
DEFAULT_GET_LIMIT == 100
MAX_GET_LIMIT == 1000
CONNECT_TIMEOUT == 300000
RWP_TIMEOUT == 300000

VARIABLES
  env,            \* process.env: MANDOLINE_API_KEY and MANDOLINE_API_BASE_URL
  constructed,    \* the options and process.env the constructor was run with
  apiKey,         \* Mandoline.apiKey
  requestConfig,  \* Mandoline.requestConfig
  call,           \* the facade operation that was called, and its arguments
  op,             \* the promise the facade operation returned
  reqs,           \* one entry per promise the operation waits for (one, or
                  \* one per metric for evaluate): the makeRequest it runs
  fetchLog,       \* the calls made to fetch, in order
  now             \* time since the operation was called, in ticks

vars == <<env, constructed, apiKey, requestConfig, call, op, reqs, fetchLog, now>>

\* a constructor in which the environment overrides the options
ConstructorEnvFirst(options, processEnv) ==
  [apiKey |-> OrElse(OrElse(processEnv.MANDOLINE_API_KEY,
                            OptionOf(options, <<"api", "K", "ey">>)),
                     JsString(<<>>)),
   requestConfig |->
     [apiBaseUrl |-> OrElse(OrElse(processEnv.MANDOLINE_API_BASE_URL,
                                   Get(options, <<"api", "B", "ase", "U", "rl">>)),
                            Word(MANDOLINE_API_BASE_URL)),
      connectTimeout |-> OrElse(Get(options, <<"connect", "T", "imeout">>),
                                JsNumber(CONNECT_TIMEOUT)).n,
      rwpTimeout |-> OrElse(Get(options, <<"rwp", "T", "imeout">>),
                            JsNumber(RWP_TIMEOUT)).n]]

\* new Mandoline(options), with process.env as processEnv
Constructor(options, processEnv) ==
  [apiKey |-> OrElse(OrElse(OptionOf(options, <<"api", "K", "ey">>), processEnv.MANDOLINE_API_KEY),
                     JsString(<<>>)),
   requestConfig |->
     [apiBaseUrl |-> OrElse(OrElse(Get(options, <<"api", "B", "ase", "U", "rl">>),
                                   processEnv.MANDOLINE_API_BASE_URL),
                            Word(MANDOLINE_API_BASE_URL)),
      connectTimeout |-> OrElse(Get(options, <<"connect", "T", "imeout">>),
                                JsNumber(CONNECT_TIMEOUT)).n,
      rwpTimeout |-> OrElse(Get(options, <<"rwp", "T", "imeout">>),
                            JsNumber(RWP_TIMEOUT)).n]]

\* the options clients are constructed with: the key and URL of the test
\* suite or no key, and every pair of timeouts up to MaxTimeout
ClientOptions ==
  {JsObject(<<Entry(<<"api", "K", "ey">>, key),
              Entry(<<"api", "B", "ase", "U", "rl">>, Word("https://test.api.com")),
              Entry(<<"connect", "T", "imeout">>, JsNumber(c)),
              Entry(<<"rwp", "T", "imeout">>, JsNumber(r))>>) :
     key \in {Word("test_api_key"), JsString(<<>>)},
     c \in 1..MaxTimeout, r \in 1..MaxTimeout}
\* evaluate multiplies the requests in flight: its clients take equal
\* timeouts, as the defaults are; both timers of a request are then due at
\* the same instant and fire in either order
EvaluateClientOptions ==
  {options \in ClientOptions :
     /\ Get(options, <<"connect", "T", "imeout">>) = JsNumber(1)
     /\ Get(options, <<"rwp", "T", "imeout">>) = JsNumber(1)}
EmptyEnv == [MANDOLINE_API_KEY |-> JsUndefined, MANDOLINE_API_BASE_URL |-> JsUndefined]

\* a promise: pending, fulfilled with value, or rejected with error
Pending == [status |-> "pending", value |-> JsUndefined, error |-> NoError]
Fulfilled(value) == [status |-> "fulfilled", value |-> value, error |-> NoError]
Rejected(error) == [status |-> "rejected", value |-> JsUndefined, error |-> error]
NotCalled == [status |-> "none", value |-> JsUndefined, error |-> NoError]

\* An entry of reqs: the promise of one makeRequest (or of the code that
\* threw before reaching it) and where that makeRequest stands.
\*   phase          "fetch": awaiting fetch; "json": awaiting response.json();
\*                  "text": awaiting response.text() in handleError; "settled"
\*   rwpTimer       the setTimeout of makeRequestWithTimeout
\*   controller     the AbortController of makeRequestWithTimeout
\*   connectSignal  the AbortSignal.timeout handed to fetch
\*   abortedIn      the phase the fetch signal aborted, or "none"
\*   logged         the lines handleError wrote with console.error
\*   entered        TRUE when makeRequest was called
Slot(phase, promise, timers, entered) ==
  [phase |-> phase, promise |-> promise, response |-> NoResponse, entered |-> entered,
   rwpTimer |-> timers, controller |-> IF timers = "none" THEN "none" ELSE "idle",
   connectSignal |-> timers, abortedIn |-> "none", logged |-> <<>>]
\* a promise that was rejected before makeRequestWithTimeout was reached
ThrownSlot(error) == Slot("settled", Rejected(error), "none", FALSE)
\* a makeRequest that has called fetch
FetchingSlot == Slot("fetch", Pending, "armed", TRUE)

\* ------------------------------------------------------- request pipeline

\* what URLSearchParams.append makes of a value: String(value)
ToQueryString(value) ==
  CASE value.t = "string" -> value
    [] value.t = "number" ->
         IF value.frac THEN JsString(<<ToString(value.n), ".5">>) ELSE Word(ToString(value.n))
    [] value.t = "boolean" -> Word(IF value.n = 1 THEN "true" ELSE "false")
    [] value.t = "null" -> Word("null")
    [] value.t = "undefined" -> Word("undefined")
    [] OTHER -> Word("[object Object]")

RECURSIVE QueryEntries(_)
\* the for-in loop of processURL: array values repeat their key
QueryEntries(entries) ==
  IF entries = <<>> THEN <<>>
  ELSE LET key == Head(entries).k
           value == Head(entries).v
       IN (IF value.t = "array"
           THEN [i \in 1..Len(value.kids) |-> Entry(key, ToQueryString(value.kids[i].v))]
           ELSE <<Entry(key, ToQueryString(value))>>)
          \o QueryEntries(Tail(entries))

\* the URL: base, endpoint, and the query entries when params are given
processURL(apiBaseUrl, endpoint, params) ==
  IF Falsy(params)
  THEN [base |-> apiBaseUrl, endpoint |-> endpoint, hasQuery |-> FALSE, query |-> <<>>]
  ELSE [base |-> apiBaseUrl, endpoint |-> endpoint, hasQuery |-> TRUE,
        query |-> QueryEntries(makeSerializable(params).kids)]

\* { body } or {}: the body is undefined when no data is given
processRequestBody(data) ==
  IF Falsy(data) THEN JsUndefined ELSE JsonStringify(makeSerializable(data))

\* a makeRequest that sends every request twice
makeRequestTwice(config, method, endpoint, authHeader, params, data) ==
  IF ~Falsy(data) /\ StringifyThrows(makeSerializable(data))
  THEN [slot |-> [ThrownSlot(TypeError("Do not know how to serialize a BigInt"))
                    EXCEPT !.entered = TRUE],
        fetches |-> <<>>]
  ELSE [slot |-> FetchingSlot,
        fetches |-> [j \in 1..2 |->
                       [slot |-> 0, method |-> method,
                        url |-> processURL(config.apiBaseUrl, endpoint, params),
                        headers |-> authHeader,
                        body |-> processRequestBody(data)]]]

\* the synchronous part of makeRequest, up to the call of fetch: the entry of
\* reqs, and the call to fetch if one is made
makeRequest(config, method, endpoint, authHeader, params, data) ==
  IF ~Falsy(data) /\ StringifyThrows(makeSerializable(data))
  THEN [slot |-> [ThrownSlot(TypeError("Do not know how to serialize a BigInt"))
                    EXCEPT !.entered = TRUE],
        fetches |-> <<>>]
  ELSE [slot |-> FetchingSlot,
        fetches |-> <<[slot |-> 0, method |-> method,
                       url |-> processURL(config.apiBaseUrl, endpoint, params),
                       headers |-> authHeader,
                       body |-> processRequestBody(data)]>>]

\* -------------------------------------------------------------- facade

NoApiKey == PlainError("API key not provided and MANDOLINE_API_KEY environment variable is not set.")
LimitExceeded == PlainError("Limit exceeds maximum allowed value of 1000. Please reduce the limit.")
Thrown1(error) == [slot |-> ThrownSlot(error), fetches |-> <<>>]

\* getAuthHeader: the header, or NoError's place taken by the Error thrown
\* a getAuthHeader that returns the header whatever the key is
getAuthHeaderNeverThrows == FALSE
getAuthHeaderThrows == Falsy(apiKey)
getAuthHeader == JsObject(<<Entry(<<"X-API-KEY">>, apiKey)>>)

\* a get whose ceiling excludes MAX_GET_LIMIT itself
getBelowCeiling(endpoint, params) ==
  IF ~Falsy(OptionOf(params, kLimit)) /\ ~NumLess(OptionOf(params, kLimit), MAX_GET_LIMIT)
  THEN Thrown1(LimitExceeded)
  ELSE IF getAuthHeaderThrows THEN Thrown1(NoApiKey)
  ELSE makeRequest(requestConfig, "GET", endpoint, getAuthHeader, params, JsUndefined)

get(endpoint, params) ==
  IF ~Falsy(OptionOf(params, kLimit)) /\ NumGreater(OptionOf(params, kLimit), MAX_GET_LIMIT)
  THEN Thrown1(LimitExceeded)
  ELSE IF getAuthHeaderThrows THEN Thrown1(NoApiKey)
  ELSE makeRequest(requestConfig, "GET", endpoint, getAuthHeader, params, JsUndefined)

post(endpoint, data) ==
  IF getAuthHeaderThrows THEN Thrown1(NoApiKey)
  ELSE makeRequest(requestConfig, "POST", endpoint, getAuthHeader, JsUndefined, data)

put(endpoint, data) ==
  IF getAuthHeaderThrows THEN Thrown1(NoApiKey)
  ELSE makeRequest(requestConfig, "PUT", endpoint, getAuthHeader, JsUndefined, data)

delete(endpoint) ==
  IF getAuthHeaderThrows THEN Thrown1(NoApiKey)
  ELSE makeRequest(requestConfig, "DELETE", endpoint, getAuthHeader, JsUndefined, JsUndefined)

\* processGetOptions of client.ts: the error it throws, if any
processGetOptionsThrows(options) ==
  /\ OptionOf(options, kFilters).t # "undefined"
  /\ ~TypeofObject(OptionOf(options, kFilters))

\* Object.assign(filters, source): the own enumerable members of source
RECURSIVE AssignEntries(_, _)
AssignEntries(target, source) ==
  IF source = <<>> THEN target
  ELSE AssignEntries(SetKey(target, Head(source).k, Head(source).v), Tail(source))

\* the filters object processGetOptions collects
GetFilters(options) ==
  LET f1 == IF OptionOf(options, kTags).t # "undefined"
            THEN SetKey(<<>>, kTags, OptionOf(options, kTags)) ELSE <<>>
      f2 == IF OptionOf(options, kMetricId).t # "undefined"
            THEN SetKey(f1, <<"metric", "_", "i", "d">>, OptionOf(options, kMetricId)) ELSE f1
      f3 == IF OptionOf(options, kProperties).t # "undefined"
            THEN SetKey(f2, kProperties, OptionOf(options, kProperties)) ELSE f2
      given == OptionOf(options, kFilters)
  IN IF given.t = "undefined" THEN f3
     ELSE IF given.t = "array"
     THEN AssignEntries(f3, [i \in 1..Len(given.kids) |->
                               Entry(<<ToString(i - 1)>>, given.kids[i].v)])
     ELSE AssignEntries(f3, given.kids)

\* config.ts exports this reading of the options of getMetrics; nothing
\* calls it (getMetrics calls processGetOptions)
processMetricGetOptions(options) ==
  LET base == <<Entry(kSkip, IF OptionOf(options, kSkip).t \in {"undefined", "null"}
                             THEN JsNumber(0) ELSE OptionOf(options, kSkip)),
                Entry(kLimit, IF OptionOf(options, kLimit).t \in {"undefined", "null"}
                              THEN JsNumber(DEFAULT_GET_LIMIT) ELSE OptionOf(options, kLimit))>>
      tags == OptionOf(options, kTags)
  IN JsObject(IF tags.t = "undefined" THEN base
              ELSE IF tags.t = "null" \/ (tags.t = "array" /\ Len(tags.kids) = 0)
              THEN SetKey(base, kTags, Word("null"))
              ELSE IF tags.t = "array" THEN SetKey(base, kTags, tags)
              ELSE base)

\* a ?? b
Nullish(a, b) == IF a.t \in {"undefined", "null"} THEN b ELSE a

\* filters travel as JSON.stringify(filters): one string that holds the JSON
processGetOptions(options) ==
  LET base == <<Entry(kSkip, Nullish(OptionOf(options, kSkip), JsNumber(0))),
                Entry(kLimit, Nullish(OptionOf(options, kLimit), JsNumber(DEFAULT_GET_LIMIT)))>>
      filters == GetFilters(options)
  IN JsObject(IF Len(filters) > 0
              THEN SetKey(base, kFilters,
                          [t |-> "string", s |-> <<"JSON">>, n |-> 0, frac |-> FALSE,
                           kids |-> <<Entry(<<>>, JsonStringify(JsObject(filters)))>>])
              ELSE base)

\* the facade operations, up to the first await: what the promise of the
\* operation waits for

\* a createMetric that posts what it is given
createMetricUnvalidated(metric) == post(<<"metrics/">>, metric)

createMetric(metric) ==
  IF validateMetricCreate(metric) # NoError THEN Thrown1(validateMetricCreate(metric))
  ELSE post(<<"metrics/">>, metric)

getMetric(metricId) ==
  IF validateId(metricId, "Metric ID") # NoError
  THEN Thrown1(validateId(metricId, "Metric ID"))
  ELSE get(<<"metrics/">> \o metricId.s, JsUndefined)

getMetrics(options) ==
  IF validateMetricsGet(options) # NoError THEN Thrown1(validateMetricsGet(options))
  ELSE IF processGetOptionsThrows(options)
  THEN Thrown1(PlainError("filters must be a dictionary"))
  ELSE get(<<"metrics/">>, processGetOptions(options))

updateMetric(metricId, update) ==
  IF validateId(metricId, "Metric ID") # NoError
  THEN Thrown1(validateId(metricId, "Metric ID"))
  ELSE IF validateMetricUpdate(update) # NoError
  THEN Thrown1(validateMetricUpdate(update))
  ELSE put(<<"metrics/">> \o metricId.s, update)

deleteMetric(metricId) ==
  IF validateId(metricId, "Metric ID") # NoError
  THEN Thrown1(validateId(metricId, "Metric ID"))
  ELSE delete(<<"metrics/">> \o metricId.s)

createEvaluation(evaluation) ==
  IF validateEvaluationCreate(evaluation) # NoError
  THEN Thrown1(validateEvaluationCreate(evaluation))
  ELSE post(<<"evaluations/">>, evaluation)

getEvaluation(evaluationId) ==
  IF validateId(evaluationId, "Evaluation ID") # NoError
  THEN Thrown1(validateId(evaluationId, "Evaluation ID"))
  ELSE get(<<"evaluations/">> \o evaluationId.s, JsUndefined)

getEvaluations(options) ==
  IF validateEvaluationsGet(options) # NoError
  THEN Thrown1(validateEvaluationsGet(options))
  ELSE IF processGetOptionsThrows(options)
  THEN Thrown1(PlainError("filters must be a dictionary"))
  ELSE get(<<"evaluations/">>, processGetOptions(options))

updateEvaluation(evaluationId, update) ==
  IF validateId(evaluationId, "Evaluation ID") # NoError
  THEN Thrown1(validateId(evaluationId, "Evaluation ID"))
  ELSE IF validateEvaluationUpdate(update) # NoError
  THEN Thrown1(validateEvaluationUpdate(update))
  ELSE put(<<"evaluations/">> \o evaluationId.s, update)

deleteEvaluation(evaluationId) ==
  IF validateId(evaluationId, "Evaluation ID") # NoError
  THEN Thrown1(validateId(evaluationId, "Evaluation ID"))
  ELSE delete(<<"evaluations/">> \o evaluationId.s)

\* the callback evaluate maps over the metrics
evaluateOne(metric, prompt, response, properties) ==
  LET evaluationCreate ==
        JsObject(<<Entry(kMetricId, Get(metric, kId)), Entry(kPrompt, prompt),
                   Entry(kResponse, response), Entry(kProperties, properties)>>)
  IN IF CannotRead(metric) THEN Thrown1(ReadTypeError)
     ELSE IF validateEvaluationCreate(evaluationCreate) # NoError
     THEN Thrown1(validateEvaluationCreate(evaluationCreate))
     ELSE createEvaluation(evaluationCreate)

\* metrics.map(async (metric) => ...): one promise per metric, in order
evaluate(metrics, prompt, response, properties) ==
  [i \in 1..Len(metrics.kids) |->
     evaluateOne(metrics.kids[i].v, prompt, response, properties)]

\* ------------------------------------------------------------- promises

\* a Promise.all that collects the values last entry first
PromiseAllReversed(slots, i) ==
  IF \E j \in 1..Len(slots) : slots[j].promise.status = "rejected"
  THEN Rejected(slots[CHOOSE j \in 1..Len(slots) :
                        slots[j].promise.status = "rejected"].promise.error)
  ELSE IF \A j \in 1..Len(slots) : slots[j].promise.status = "fulfilled"
  THEN Fulfilled(JsArray([j \in 1..Len(slots) |->
                            slots[Len(slots) + 1 - j].promise.value]))
  ELSE Pending

\* Promise.all over the entries of reqs, when entry i has just settled (or,
\* with i = 0, when it is called): the first rejection wins, else the array
\* of the values in the order of the entries
PromiseAll(slots, i) ==
  IF i = 0 /\ \E j \in 1..Len(slots) : slots[j].promise.status = "rejected"
  THEN Rejected(slots[CHOOSE j \in 1..Len(slots) :
                        /\ slots[j].promise.status = "rejected"
                        /\ \A h \in 1..(j - 1) : slots[h].promise.status # "rejected"
                     ].promise.error)
  ELSE IF i > 0 /\ slots[i].promise.status = "rejected"
  THEN Rejected(slots[i].promise.error)
  ELSE IF \A j \in 1..Len(slots) : slots[j].promise.status = "fulfilled"
  THEN Fulfilled(JsArray([j \in 1..Len(slots) |-> slots[j].promise.value]))
  ELSE Pending

\* the promise of the operation after entry i of slots settled (i = 0: at
\* the call); a settled promise never changes. evaluate returns Promise.all,
\* every other operation the promise of its one request; deleteMetric and
\* deleteEvaluation await it and return nothing
OpPromise(name, old, slots, i) ==
  IF old.status \in {"fulfilled", "rejected"} THEN old
  ELSE IF name = "evaluate" THEN PromiseAll(slots, i)
  ELSE IF slots[1].promise.status = "fulfilled"
          /\ name \in {"deleteMetric", "deleteEvaluation"}
  THEN Fulfilled(JsUndefined)
  ELSE slots[1].promise

RECURSIVE FetchesOf(_, _)
\* the calls to fetch made by the attempts from the i-th on, in order
FetchesOf(attempts, i) ==
  IF i > Len(attempts) THEN <<>>
  ELSE [j \in 1..Len(attempts[i].fetches) |-> [attempts[i].fetches[j] EXCEPT !.slot = i]]
       \o FetchesOf(attempts, i + 1)

\* a facade operation is called: its synchronous part runs
Launch(name, args, attempts) ==
  /\ call' = [name |-> name, args |-> args]
  /\ reqs' = [i \in 1..Len(attempts) |-> attempts[i].slot]
  /\ fetchLog' = FetchesOf(attempts, 1)
  /\ op' = OpPromise(name, Pending, [i \in 1..Len(attempts) |-> attempts[i].slot], 0)
  /\ UNCHANGED <<env, constructed, apiKey, requestConfig, now>>

\* ------------------------------------------------- arguments of the calls

Obj1(k1, v1) == JsObject(<<Entry(k1, v1)>>)
Obj2(k1, v1, k2, v2) == JsObject(<<Entry(k1, v1), Entry(k2, v2)>>)
Obj3(k1, v1, k2, v2, k3, v3) == JsObject(<<Entry(k1, v1), Entry(k2, v2), Entry(k3, v3)>>)

IdInputs == {Word(UuidA), Word(UuidV1), Word(NotUuid), JsUndefined}

MetricCreateInputs ==
  {Obj2(kName, Word("Test Metric"), kDescription, Word("A test metric")),
   Obj3(kName, Word("Test Metric"), kDescription, Word("A test metric"),
        kTags, JsArray(<<Word("test")>>)),
   Obj2(kName, JsString(<<>>), kDescription, Word("Test description")),
   Obj2(kName, JsString(<<" ", " ">>), kDescription, Word("Test description")),
   Obj2(kName, Word("Test Metric"), kDescription, JsNumber(7)),
   Obj3(kName, Word("Test Metric"), kDescription, Word("A test metric"),
        kTags, Word("test")),
   Obj3(kName, Word("Test Metric"), kDescription, Word("A test metric"),
        <<"weight">>, JsBigInt),
   JsNull}

MetricUpdateInputs ==
  {JsObject(<<>>),
   Obj1(kName, Word("Updated Metric")),
   Obj2(kName, Word("Updated Metric"), kTags, JsArray(<<Word("test"), Word("updated")>>)),
   Obj1(kName, JsUndefined),
   Obj1(kTags, JsNull),
   Obj1(kName, JsString(<<>>)),
   Obj2(kName, Word("Updated Metric"), <<"weight">>, JsBigInt),
   JsNull}

SomeProperties == Obj1(<<"key">>, Word("value"))

EvaluationCreateInputs ==
  {JsObject(<<Entry(kMetricId, id), Entry(kPrompt, prompt),
              Entry(kResponse, Word("Test response"))>>
            \o (IF properties.t = "undefined" THEN <<>>
                ELSE <<Entry(kProperties, properties)>>)) :
     id \in {Word(UuidA), Word(NotUuid)},
     prompt \in {Word("Test prompt"), JsString(<<>>)},
     properties \in {JsUndefined, JsNull, SomeProperties,
                     Obj1(<<"key">>, JsUndefined), Obj1(<<"key">>, JsFunction),
                     Obj1(<<"key">>, JsMap)}}

EvaluationUpdateInputs ==
  {JsObject(<<>>),
   Obj1(kProperties, Obj1(<<"key">>, Word("updated_value"))),
   Obj1(kProperties, JsNull),
   Obj1(kProperties, JsUndefined),
   Obj1(kProperties, JsArray(<<Word("value")>>)),
   Obj1(kProperties, Obj1(<<"key">>, JsFunction)),
   Obj1(kProperties, Obj1(<<"key">>, JsArray(<<Obj1(<<"inner">>, JsUndefined)>>))),
   Obj1(kProperties, Obj1(<<"key">>, JsMap)),
   JsNull}

\* the options of a list call: undefined, or an object that holds the
\* members that are not undefined
Options(entries) ==
  JsObject(SelectSeq(entries, LAMBDA e : e.v.t # "undefined"))

MetricsGetInputs ==
  {JsUndefined} \cup
  {Options(<<Entry(kSkip, skip), Entry(kLimit, limit), Entry(kTags, tags),
             Entry(kFilters, filters)>>) :
     skip \in {JsUndefined, JsNumber(0), JsNumber(-1), JsHalf(0)},
     limit \in {JsUndefined, JsNumber(10), JsNumber(MAX_GET_LIMIT),
                JsNumber(MAX_GET_LIMIT + 1), JsNumber(0), JsHalf(1), Word("10")},
     tags \in {JsUndefined, JsNull, JsArray(<<>>), JsArray(<<Word("test")>>)},
     filters \in {JsUndefined, Word("name"), Obj1(<<"key">>, JsFunction)}}

EvaluationsGetInputs ==
  {JsUndefined} \cup
  {Options(<<Entry(kSkip, skip), Entry(kLimit, limit), Entry(kMetricId, metricId),
             Entry(kProperties, properties), Entry(kFilters, filters)>>) :
     skip \in {JsUndefined, JsNumber(0), JsNumber(-1)},
     limit \in {JsUndefined, JsNumber(MAX_GET_LIMIT + 1), JsNumber(0), JsHalf(1)},
     metricId \in {JsUndefined, Word(UuidA), Word(NotUuid)},
     properties \in {JsUndefined, SomeProperties},
     filters \in {JsUndefined, JsObject(<<>>), JsNull, Word("name"),
                  Obj1(<<"key">>, JsFunction)}}

\* Metrics as the service returns them
MetricInputs ==
  {Obj3(kId, id, kName, Word("Metric"), kDescription, JsString(<<>>)) :
     id \in {Word(UuidA), Word(UuidB), Word(NotUuid)}}

RECURSIVE SeqsUpTo(_, _)
\* the sequences over S of length at most n
SeqsUpTo(S, n) ==
  IF n = 0 THEN {<<>>}
  ELSE SeqsUpTo(S, n - 1) \cup
       {Append(q, x) : q \in {r \in SeqsUpTo(S, n - 1) : Len(r) = n - 1}, x \in S}

\* ------------------------------------------------------ calls of the facade

CallCreateMetric ==
  /\ call.name = "none"
  /\ \E metric \in MetricCreateInputs :
      Launch("createMetric", <<metric>>, <<createMetric(metric)>>)

CallGetMetric ==
  /\ call.name = "none"
  /\ \E id \in IdInputs : Launch("getMetric", <<id>>, <<getMetric(id)>>)

CallGetMetrics ==
  /\ call.name = "none"
  /\ \E options \in MetricsGetInputs :
      Launch("getMetrics", <<options>>, <<getMetrics(options)>>)

CallUpdateMetric ==
  /\ call.name = "none"
  /\ \E id \in IdInputs, update \in MetricUpdateInputs :
      Launch("updateMetric", <<id, update>>, <<updateMetric(id, update)>>)

CallDeleteMetric ==
  /\ call.name = "none"
  /\ \E id \in IdInputs : Launch("deleteMetric", <<id>>, <<deleteMetric(id)>>)

CallCreateEvaluation ==
  /\ call.name = "none"
  /\ \E evaluation \in EvaluationCreateInputs :
      Launch("createEvaluation", <<evaluation>>, <<createEvaluation(evaluation)>>)

CallGetEvaluation ==
  /\ call.name = "none"
  /\ \E id \in IdInputs : Launch("getEvaluation", <<id>>, <<getEvaluation(id)>>)

CallGetEvaluations ==
  /\ call.name = "none"
  /\ \E options \in EvaluationsGetInputs :
      Launch("getEvaluations", <<options>>, <<getEvaluations(options)>>)

CallUpdateEvaluation ==
  /\ call.name = "none"
  /\ \E id \in IdInputs, update \in EvaluationUpdateInputs :
      Launch("updateEvaluation", <<id, update>>, <<updateEvaluation(id, update)>>)

CallDeleteEvaluation ==
  /\ call.name = "none"
  /\ \E id \in IdInputs : Launch("deleteEvaluation", <<id>>, <<deleteEvaluation(id)>>)

CallEvaluate ==
  /\ call.name = "none"
  /\ \E metrics \in SeqsUpTo(MetricInputs, MaxMetrics),
       prompt \in {Word("Test prompt"), JsString(<<>>)},
       properties \in {SomeProperties, Obj1(<<"key">>, JsFunction)} :
      Launch("evaluate",
             <<JsArray(metrics), prompt, Word("Test response"), properties>>,
             evaluate(JsArray(metrics), prompt, Word("Test response"), properties))

\* ----------------------------------------------- transport and the timers

\* the call to fetch made for entry i of reqs
RequestOf(i) == fetchLog[CHOOSE j \in 1..Len(fetchLog) : fetchLog[j].slot = i]

\* the JSON the service answers a request with: the record it made or read
ServerJson(request) ==
  JsonStringify(JsObject(<<
    Entry(<<"id">>, Word(UuidB)),
    Entry(<<"metric", "_", "i", "d">>, Get(request.body, <<"metric", "_", "i", "d">>)),
    Entry(kProperties, Get(request.body, kProperties)),
    Entry(<<"created", "_", "a", "t">>, Word("2023-01-01T00:00:00Z"))>>))

\* the responses fetch resolves with
ServerResponses(request) ==
  {HttpResponse(200, "OK", Body("{...}", TRUE, ServerJson(request))),
   HttpResponse(200, "OK", Body("<html>", FALSE, JsUndefined)),
   HttpResponse(400, "Bad Request",
                Body("{\"error\":\"Bad Request\"}", TRUE,
                     Obj1(<<"error">>, Word("Bad Request")))),
   HttpResponse(429, "Too Many Requests",
                Body("{\"detail\":{\"type\":\"RateLimitExceeded\",\"message\":\"slow down\"}}",
                     TRUE,
                     Obj1(<<"detail">>, Obj2(<<"type">>, Kind("RateLimitExceeded"),
                                             <<"message">>, Word("slow down"))))),
   HttpResponse(500, "Internal Server Error", Body("upstream failed", FALSE, JsUndefined))}

\* clearTimeout(timeoutId) in the finally of makeRequestWithTimeout
ClearTimeout(timer) == IF timer = "armed" THEN "cleared" ELSE timer

\* a settling that cancels the siblings: the rejection of entry i rejects
\* every entry still pending with it
SettleWithSiblings(i, slot, promise, lines) ==
  /\ reqs' = [j \in 1..Len(reqs) |->
                IF j = i
                THEN [slot EXCEPT !.phase = "settled", !.promise = promise,
                                  !.logged = lines,
                                  !.rwpTimer = ClearTimeout(slot.rwpTimer)]
                ELSE IF promise.status = "rejected" /\ reqs[j].phase # "settled"
                THEN [reqs[j] EXCEPT !.phase = "settled", !.promise = promise,
                                     !.rwpTimer = ClearTimeout(reqs[j].rwpTimer)]
                ELSE reqs[j]]
  /\ op' = OpPromise(call.name, op, reqs', i)

\* entry i settles with promise, slot being the entry as the event that
\* settles it left it; the promise of the operation follows
Settle(i, slot, promise, lines) ==
  /\ reqs' = [reqs EXCEPT ![i] =
                [slot EXCEPT !.phase = "settled", !.promise = promise,
                             !.logged = lines,
                             !.rwpTimer = ClearTimeout(slot.rwpTimer)]]
  /\ op' = OpPromise(call.name, op, reqs', i)

\* the catch of makeRequest for a thrown value that is no Response
CatchThrown(i, slot, err) ==
  Settle(i, slot, Rejected(handleErrorThrown(err)),
         handleErrorLog(IsMandolineError(err), handleErrorThrown(err)))

\* fetch resolves with a response: the timer of makeRequestWithTimeout is
\* cleared; processResponse awaits json() of an ok response and throws any
\* other, which handleError reads with text()
FetchResolves(i) ==
  /\ reqs[i].phase = "fetch"
  /\ \E response \in ServerResponses(RequestOf(i)) :
       reqs' = [reqs EXCEPT ![i].phase = IF response.ok THEN "json" ELSE "text",
                            ![i].response = response,
                            ![i].rwpTimer = ClearTimeout(reqs[i].rwpTimer)]
  /\ UNCHANGED <<env, constructed, apiKey, requestConfig, call, op, fetchLog, now>>

\* fetch rejects with a network fault
FetchRejects(i) ==
  /\ reqs[i].phase = "fetch"
  /\ CatchThrown(i, reqs[i], FetchError("request failed, reason: connect ECONNREFUSED"))
  /\ UNCHANGED <<env, constructed, apiKey, requestConfig, call, fetchLog, now>>

\* response.json() settles: the parsed body in camelCase, or the fault of
\* a body that is no JSON
JsonSettles(i) ==
  /\ reqs[i].phase = "json"
  /\ IF reqs[i].response.body.json
     THEN Settle(i, reqs[i],
                 Fulfilled(objectToCamelCase(reqs[i].response.body.value)), <<>>)
     ELSE CatchThrown(i, reqs[i], FetchError("invalid json response body"))
  /\ UNCHANGED <<env, constructed, apiKey, requestConfig, call, fetchLog, now>>

\* response.text() resolves in handleError: the response is classified
TextResolves(i) ==
  /\ reqs[i].phase = "text"
  /\ Settle(i, reqs[i], Rejected(handleErrorResponse(reqs[i].response)),
            handleErrorLog(FALSE, handleErrorResponse(reqs[i].response)))
  /\ UNCHANGED <<env, constructed, apiKey, requestConfig, call, fetchLog, now>>

\* the body stream fails while it is read: json() rejects inside the try of
\* makeRequest, text() rejects inside handleError, whose rejection is what
\* `throw await handleError(error)` then throws
BodyFails(i) ==
  /\ reqs[i].phase \in {"json", "text"}
  /\ IF reqs[i].phase = "json"
     THEN CatchThrown(i, reqs[i], FetchError("Invalid response body: Premature close"))
     ELSE Settle(i, reqs[i],
                 Rejected(FetchError("Invalid response body: Premature close")), <<>>)
  /\ UNCHANGED <<env, constructed, apiKey, requestConfig, call, fetchLog, now>>

\* AbortSignal.timeout(config.connectTimeout), the signal given to fetch,
\* fires: node-fetch rejects a pending fetch with an AbortError and fails
\* the body of a response that is still being read with it. (Nothing
\* clears this timer: once the promise has settled it stays armed, and its
\* firing then changes nothing.)
ConnectSignalFires(i) ==
  /\ reqs[i].connectSignal = "armed"
  /\ reqs[i].phase # "settled"
  /\ now >= requestConfig.connectTimeout
  /\ LET fired == [reqs[i] EXCEPT !.connectSignal = "fired", !.abortedIn = reqs[i].phase]
     IN IF reqs[i].phase \in {"fetch", "json"}
        THEN CatchThrown(i, fired, AbortError)
        ELSE Settle(i, fired, Rejected(AbortError), <<>>)
  /\ UNCHANGED <<env, constructed, apiKey, requestConfig, call, fetchLog, now>>

\* setTimeout(() => controller.abort(), config.rwpTimeout) fires: the
\* controller aborts; its signal was given to nothing
RwpTimerFires(i) ==
  /\ reqs[i].rwpTimer = "armed"
  /\ now >= requestConfig.rwpTimeout
  /\ reqs' = [reqs EXCEPT ![i].rwpTimer = "fired", ![i].controller = "aborted"]
  /\ UNCHANGED <<env, constructed, apiKey, requestConfig, call, op, fetchLog, now>>

\* the deadlines of the armed timers of the requests in flight (all were
\* armed at time 0)
Deadlines ==
  {requestConfig.rwpTimeout : i \in {j \in 1..Len(reqs) : reqs[j].rwpTimer = "armed"}}
  \cup
  {requestConfig.connectTimeout :
     i \in {j \in 1..Len(reqs) : reqs[j].connectSignal = "armed" /\ reqs[j].phase # "settled"}}

\* time passes, up to the next deadline: a timer that is due fires first
Tick ==
  /\ Deadlines # {}
  /\ \A d \in Deadlines : d > now
  /\ now' = CHOOSE d \in Deadlines : \A e \in Deadlines : d <= e
  /\ UNCHANGED <<env, constructed, apiKey, requestConfig, call, op, reqs, fetchLog>>

\* ------------------------------------------------------- specifications

\* the state after new Mandoline(options)
Init ==
  /\ \E options \in ClientOptions :
       /\ constructed = [options |-> options, env |-> EmptyEnv]
       /\ apiKey = Constructor(options, EmptyEnv).apiKey
       /\ requestConfig = Constructor(options, EmptyEnv).requestConfig
  /\ env = EmptyEnv
  /\ call = [name |-> "none", args |-> <<>>]
  /\ op = NotCalled
  /\ reqs = <<>>
  /\ fetchLog = <<>>
  /\ now = 0

\* what the transport and the timers do to the requests in flight
Transport ==
  \E i \in 1..Len(reqs) :
    \/ FetchResolves(i)
    \/ FetchRejects(i)
    \/ JsonSettles(i)
    \/ TextResolves(i)
    \/ ConnectSignalFires(i)
    \/ RwpTimerFires(i)

\* the create, get, list, update and delete operations
Next ==
  \/ CallCreateMetric
  \/ CallGetMetric
  \/ CallGetMetrics
  \/ CallUpdateMetric
  \/ CallDeleteMetric
  \/ CallCreateEvaluation
  \/ CallGetEvaluation
  \/ CallGetEvaluations
  \/ CallUpdateEvaluation
  \/ CallDeleteEvaluation
  \/ Transport
  \/ \E i \in 1..Len(reqs) : BodyFails(i)
  \/ Tick

Spec == Init /\ [][Next]_vars

\* evaluate
InitEvaluate ==
  /\ \E options \in EvaluateClientOptions :
       /\ constructed = [options |-> options, env |-> EmptyEnv]
       /\ apiKey = Constructor(options, EmptyEnv).apiKey
       /\ requestConfig = Constructor(options, EmptyEnv).requestConfig
  /\ env = EmptyEnv
  /\ call = [name |-> "none", args |-> <<>>]
  /\ op = NotCalled
  /\ reqs = <<>>
  /\ fetchLog = <<>>
  /\ now = 0

NextEvaluate ==
  \/ CallEvaluate
  \/ Transport
  \/ Tick

SpecEvaluate == InitEvaluate /\ [][NextEvaluate]_vars

\* construction: the options and the environment a client is made from
\* (new Mandoline() is new Mandoline({})), as the Initialization tests do
ConfigOptions ==
  {Options(<<Entry(<<"api", "K", "ey">>, key),
             Entry(<<"api", "B", "ase", "U", "rl">>, url),
             Entry(<<"connect", "T", "imeout">>, timeouts[1]),
             Entry(<<"rwp", "T", "imeout">>, timeouts[2])>>) :
     key \in {JsUndefined, JsString(<<>>), Word("test_api_key")},
     url \in {JsUndefined, Word("https://test.api.com")},
     timeouts \in {<<JsUndefined, JsUndefined>>, <<JsNumber(1), JsNumber(2)>>}}
EnvInputs ==
  [MANDOLINE_API_KEY : {JsUndefined, JsString(<<>>), Word("env_test_api_key")},
   MANDOLINE_API_BASE_URL : {JsUndefined, Word("https://env.test.api.com")}]

InitConfig ==
  /\ env \in EnvInputs
  /\ \E options \in ConfigOptions :
       /\ constructed = [options |-> options, env |-> env]
       /\ apiKey = Constructor(options, env).apiKey
       /\ requestConfig = Constructor(options, env).requestConfig
  /\ call = [name |-> "none", args |-> <<>>]
  /\ op = NotCalled
  /\ reqs = <<>>
  /\ fetchLog = <<>>
  /\ now = 0

\* the process changes its environment after the client was constructed
SetEnv ==
  /\ call.name = "none"
  /\ env' \in EnvInputs \ {env}
  /\ UNCHANGED <<constructed, apiKey, requestConfig, call, op, reqs, fetchLog, now>>

NextConfig ==
  \/ SetEnv
  \/ CallCreateMetric
  \/ CallGetMetric
  \/ CallGetMetrics
  \/ CallUpdateMetric
  \/ CallDeleteMetric
  \/ CallCreateEvaluation
  \/ CallGetEvaluation
  \/ CallGetEvaluations
  \/ CallUpdateEvaluation
  \/ CallDeleteEvaluation
  \/ CallEvaluate

SpecConfig == InitConfig /\ [][NextConfig]_vars

\* the classifier on its own: handleError(err) for the responses and the
\* thrown values a caller can hand it
DetailTypes == {"ValidationError", "RateLimitExceeded", "RequestError", "TimeoutError", "Teapot"}
\* the body {"detail": {"type": type, "message": message}}; the message is
\* left out when undefined
DetailBody(type, message) ==
  Body("{\"detail\":{\"type\":\"" \o type \o "\""
         \o (IF message.t = "undefined" THEN ""
             ELSE ",\"message\":\"" \o (IF message.s = <<>> THEN "" ELSE message.s[1]) \o "\"")
         \o "}}",
       TRUE,
       Obj1(<<"detail">>,
            JsObject(<<Entry(<<"type">>, Word(type))>>
                     \o (IF message.t = "undefined" THEN <<>>
                         ELSE <<Entry(<<"message">>, message)>>))))
ErrorBodies ==
  {Body("Not Found", FALSE, JsUndefined),
   Body("", FALSE, JsUndefined),
   Body("null", TRUE, JsNull),
   Body("{\"error\":\"Bad Request\"}", TRUE, Obj1(<<"error">>, Word("Bad Request"))),
   Body("{\"detail\":\"Not Found\"}", TRUE, Obj1(<<"detail">>, Word("Not Found"))),
   Body("{\"detail\":{\"message\":\"no such metric\"}}", TRUE,
        Obj1(<<"detail">>, Obj1(<<"message">>, Word("no such metric")))),
   Body("{\"detail\":{\"type\":\"ValidationError\",\"additional_info\":{\"errors\":\"name: required\"}}}",
        TRUE,
        Obj1(<<"detail">>,
             Obj2(<<"type">>, Word("ValidationError"),
                  <<"additional_info">>, Obj1(<<"errors">>, Word("name: required")))))}
  \cup {DetailBody(type, message) :
          type \in DetailTypes,
          message \in {JsUndefined, JsString(<<>>), Word("slow down")}}
ErrorResponses ==
  {HttpResponse(status[1], status[2], body) :
     status \in {<<400, "Bad Request">>, <<404, "Not Found">>,
                 <<429, "Too Many Requests">>, <<500, "Internal Server Error">>},
     body \in ErrorBodies}
ThrownInputs ==
  {ValidationError("Metric name must be a non-empty string."),
   handleErrorResponse(HttpResponse(404, "Not Found", Body("Not Found", FALSE, JsUndefined))),
   AbortError,
   FetchError("request failed, reason: socket hang up"),
   PlainError("boom"),
   TypeError("Cannot read properties of null or undefined")}
  \cup {NonError(value) :
          value \in {JsUndefined, JsNull, Word("boom"), JsNumber(5), JsFunction,
                     JsBigInt, Obj1(<<"code">>, JsNumber(1))}}

\* a call of handleError on its own: its promise, and the lines it wrote
\* with console.error (a JavaScript exception that left it wrote none)
HandleErrorSlot(promise, lines) ==
  [Slot("settled", promise, "none", FALSE)
     EXCEPT !.logged = IF promise.status = "fulfilled" THEN lines ELSE <<>>]

\* await handleError(response), the text of the response being read
HandleErrorOfResponse ==
  /\ call.name = "none"
  /\ \E response \in ErrorResponses :
       /\ call' = [name |-> "handleError", args |-> <<response>>]
       /\ op' = Fulfilled(handleErrorResponse(response))
       /\ reqs' = <<HandleErrorSlot(op', handleErrorLog(FALSE, handleErrorResponse(response)))>>
  /\ UNCHANGED <<env, constructed, apiKey, requestConfig, fetchLog, now>>

\* await handleError(err) for a thrown value that is no Response
HandleErrorOfThrown ==
  /\ call.name = "none"
  /\ \E err \in ThrownInputs :
       /\ call' = [name |-> "handleErrorThrown", args |-> <<err>>]
       /\ op' = IF IsMandolineError(handleErrorThrown(err))
                THEN Fulfilled(handleErrorThrown(err))
                ELSE Rejected(handleErrorThrown(err))
       /\ reqs' = <<HandleErrorSlot(op', handleErrorLog(IsMandolineError(err),
                                                        handleErrorThrown(err)))>>
  /\ UNCHANGED <<env, constructed, apiKey, requestConfig, fetchLog, now>>

\* await handleError(await handleError(x)): handleError is given the error
\* an earlier handleError returned
HandleErrorOfResult ==
  /\ call.name \in {"handleError", "handleErrorThrown"}
  /\ op.status = "fulfilled"
  /\ call' = [name |-> "handleError(handleError)", args |-> <<op.value>>]
  /\ op' = IF IsMandolineError(handleErrorThrown(op.value))
           THEN Fulfilled(handleErrorThrown(op.value))
           ELSE Rejected(handleErrorThrown(op.value))
  /\ reqs' = Append(reqs, HandleErrorSlot(op', handleErrorLog(IsMandolineError(op.value),
                                                             handleErrorThrown(op.value))))
  /\ UNCHANGED <<env, constructed, apiKey, requestConfig, fetchLog, now>>

NextClassify ==
  \/ HandleErrorOfResponse
  \/ HandleErrorOfThrown
  \/ HandleErrorOfResult

SpecClassify == Init /\ [][NextClassify]_vars

\* the naming converter on its own. The keys are valid identifiers: local
\* (camelCase) names, names that start with a capital, wire (snake_case)
\* names, names with a leading underscore, with an underscore before a
\* capital and before a digit
CaseKeys ==
  {<<"name">>, <<"metric", "I", "d">>, <<"created", "A", "t">>, <<"N", "ame">>,
   <<"my", "_", "k", "ey">>, <<"_", "i", "d">>, <<"a", "_", "B">>, <<"tag", "_", "1">>}
\* what a caller keeps under properties
UserSubtrees ==
  {Obj1(<<"user", "K", "ey">>, JsNumber(1)),
   Obj1(<<"user", "_", "k", "ey">>, JsNumber(1)),
   Obj1(<<"key">>, Obj1(<<"inner", "K", "ey">>, Word("some_Value"))),
   JsArray(<<Obj1(<<"user", "K", "ey">>, JsNumber(1))>>),
   JsNull}
FlatMappings ==
  {Obj1(key, value) : key \in CaseKeys, value \in {JsNumber(1), Word("some_Value")}}
  \cup {Obj1(kProperties, subtree) : subtree \in UserSubtrees}
CaseMappings ==
  FlatMappings
  \cup {Obj2(keys[1], JsNumber(1), keys[2], JsNumber(2)) :
          keys \in {pair \in CaseKeys \X CaseKeys : pair[1] # pair[2]}}
  \cup {Obj2(key, JsNumber(1), kProperties, subtree) :
          key \in CaseKeys, subtree \in UserSubtrees}
  \cup {Obj1(key, inner) : key \in CaseKeys, inner \in FlatMappings}
  \cup {Obj1(key, JsArray(<<inner, JsNull>>)) : key \in CaseKeys, inner \in FlatMappings}

CallObjectToSnakeCase ==
  /\ call.name = "none"
  /\ \E m \in CaseMappings :
       /\ call' = [name |-> "objectToSnakeCase", args |-> <<m>>]
       /\ op' = Fulfilled(objectToSnakeCase(m))
  /\ UNCHANGED <<env, constructed, apiKey, requestConfig, reqs, fetchLog, now>>

CallObjectToCamelCase ==
  /\ call.name = "none"
  /\ \E m \in CaseMappings :
       /\ call' = [name |-> "objectToCamelCase", args |-> <<m>>]
       /\ op' = Fulfilled(objectToCamelCase(m))
  /\ UNCHANGED <<env, constructed, apiKey, requestConfig, reqs, fetchLog, now>>

\* objectToCamelCase(objectToSnakeCase(m)): the second conversion, applied
\* to the result of the first
CallObjectToCamelCaseOfResult ==
  /\ call.name = "objectToSnakeCase"
  /\ call' = [name |-> "objectToCamelCase(objectToSnakeCase)", args |-> call.args]
  /\ op' = Fulfilled(objectToCamelCase(op.value))
  /\ UNCHANGED <<env, constructed, apiKey, requestConfig, reqs, fetchLog, now>>

NextCasing ==
  \/ CallObjectToSnakeCase
  \/ CallObjectToCamelCase
  \/ CallObjectToCamelCaseOfResult

SpecCasing == Init /\ [][NextCasing]_vars

\* ------------------------------------------------------------ properties

\* what the validators of the operation called throw on its arguments, in
\* the order the operation runs them
ValidatorVerdict ==
  CASE call.name = "createMetric" -> validateMetricCreate(call.args[1])
    [] call.name \in {"getMetric", "deleteMetric"} -> validateId(call.args[1], "Metric ID")
    [] call.name = "getMetrics" -> validateMetricsGet(call.args[1])
    [] call.name = "updateMetric" ->
         FirstError(<<validateId(call.args[1], "Metric ID"),
                      validateMetricUpdate(call.args[2])>>)
    [] call.name = "createEvaluation" -> validateEvaluationCreate(call.args[1])
    [] call.name \in {"getEvaluation", "deleteEvaluation"} ->
         validateId(call.args[1], "Evaluation ID")
    [] call.name = "getEvaluations" -> validateEvaluationsGet(call.args[1])
    [] call.name = "updateEvaluation" ->
         FirstError(<<validateId(call.args[1], "Evaluation ID"),
                      validateEvaluationUpdate(call.args[2])>>)
    [] OTHER -> NoError

IsTimeoutError(err) == IsMandolineError(err) /\ err.kind = Kind("TimeoutError")

\* C1: for each of the ten create/get/list/update/delete operations, an
\* input its validator rejects makes the operation reject with that
\* ValidationError, and no call to fetch is ever issued for the operation
\* (nor is one issued when the validator throws anything else).
C1_RejectedInputNeverReachesFetch ==
  /\ ValidatorVerdict # NoError => fetchLog = <<>>
  /\ ValidatorVerdict.cls = "ValidationError" =>
       /\ op = Rejected(ValidatorVerdict)
       /\ op.error.kind = Kind("ValidationError")

\* updateEvaluation was called with a valid id and an update its validator
\* rejects, and has rejected
C1_Witness ==
  /\ call.name = "updateEvaluation"
  /\ validateId(call.args[1], "Evaluation ID") = NoError
  /\ ValidatorVerdict.cls = "ValidationError"
  /\ op.status = "rejected"

\* C2: the promise of makeRequest rejects only with a MandolineError made by
\* handleError, whatever fetch or the parsing of the response throws or
\* returns and whatever fails while the URL or the body is built.
C2_OnlyClassifiedErrorsLeaveMakeRequest ==
  \A i \in 1..Len(reqs) :
    (reqs[i].entered /\ reqs[i].promise.status = "rejected")
      => IsMandolineError(reqs[i].promise.error)

\* C3: every rejection of a facade operation carries a MandolineError with
\* a kind and a message, whatever its cause (limit above the maximum,
\* missing API key, malformed filters, validation, transport).
C3_EveryRejectionIsClassified ==
  op.status = "rejected" =>
    /\ IsMandolineError(op.error)
    /\ ~Falsy(op.error.kind)
    /\ ~Falsy(op.error.message)

\* C4: an operation resolves only if fetch returned a 2xx response; on any
\* other response it rejects with the classification of that response, and
\* the response or its body is never the result.
C4_ResolvesOnlyOn2xx ==
  \A i \in 1..Len(reqs) :
    /\ op.status = "fulfilled" => reqs[i].response.ok
    /\ (reqs[i].phase = "settled" /\ reqs[i].response # NoResponse /\ ~reqs[i].response.ok)
         => op = Rejected(handleErrorResponse(reqs[i].response))

\* C5: when connectTimeout elapses on a request in flight, the request is
\* aborted and rejects with a MandolineError of kind TimeoutError, whatever
\* rwpTimeout is.
C5_ConnectTimeoutRejectsWithTimeoutError ==
  \A i \in 1..Len(reqs) :
    reqs[i].abortedIn # "none" =>
      /\ reqs[i].promise.status = "rejected"
      /\ IsTimeoutError(reqs[i].promise.error)
      /\ op.status = "rejected"
      /\ IsTimeoutError(op.error)

\* C6: a request whose rwpTimeout elapsed before its cycle completed was
\* aborted: it ends rejected with kind TimeoutError, also when
\* connectTimeout is the larger of the two.
C6_RwpTimeoutRejectsWithTimeoutError ==
  \A i \in 1..Len(reqs) :
    (reqs[i].rwpTimer = "fired" /\ reqs[i].phase = "settled") =>
      /\ reqs[i].promise.status = "rejected"
      /\ IsTimeoutError(reqs[i].promise.error)

\* C7: the connect timer aborts a request only while fetch is pending, never
\* once fetch has resolved and the body of the response is being read.
C7_ConnectTimeoutOnlyBeforeResponse ==
  \A i \in 1..Len(reqs) : reqs[i].abortedIn \in {"none", "fetch"}

EvaluateOfValidMetrics ==
  /\ call.name = "evaluate"
  /\ ~getAuthHeaderThrows
  /\ \A i \in 1..Len(call.args[1].kids) :
       evaluateOne(call.args[1].kids[i].v, call.args[2], call.args[3], call.args[4]).fetches
         # <<>>

\* the call to fetch and the result that belong to the i-th metric
CallIsForMetric(request, metric) ==
  /\ request.method = "POST"
  /\ request.url.endpoint = <<"evaluations/">>
  /\ Get(request.body, <<"metric", "_", "i", "d">>) = Get(metric, kId)
ResultIsForMetric(evaluation, metric) ==
  Get(evaluation, kMetricId) = Get(metric, kId)

\* (the consequent stands first: the validators of the premise are then
\* evaluated only in the states where it fails)
C9_State ==
  LET metrics == call.args[1].kids
      N == Len(metrics)
  IN call.name = "evaluate" =>
       \/ /\ Len(fetchLog) = N
          /\ \A i \in 1..N :
               fetchLog[i].slot = i /\ CallIsForMetric(fetchLog[i], metrics[i].v)
          /\ op.status = "fulfilled" =>
               /\ \A i \in 1..N : reqs[i].promise.status = "fulfilled"
               /\ op.value.t = "array"
               /\ Len(op.value.kids) = N
               /\ \A i \in 1..N :
                    /\ op.value.kids[i].v = reqs[i].promise.value
                    /\ ResultIsForMetric(op.value.kids[i].v, metrics[i].v)
          /\ (\E i \in 1..N : reqs[i].promise.status = "rejected")
               => op.status = "rejected"
          /\ (\A i \in 1..N : reqs[i].promise.status = "fulfilled")
               => op.status = "fulfilled"
       \/ ~EvaluateOfValidMetrics

\* the step in which a first call rejects rejects evaluate with the error
\* of that call, and a rejected evaluate stays as it is
C9_Step ==
  call.name = "evaluate" =>
    /\ op.status = "rejected" => op' = op
    /\ \A i \in 1..Len(reqs) :
         (/\ op.status = "pending"
          /\ reqs[i].promise.status = "pending"
          /\ reqs'[i].promise.status = "rejected")
           => op' = Rejected(reqs'[i].promise.error)

\* C9: evaluate with N valid metrics (on a client that holds an API key)
\* issues exactly N create-evaluation calls, the i-th for the i-th metric;
\* when all succeed it resolves to the N results in the order of the
\* metrics, whatever order the responses arrived in; when a call rejects it
\* rejects with the error of the first call to reject, and keeps it.
C9_EvaluateIsPromiseAllInOrder == []C9_State /\ [][C9_Step]_vars

\* evaluate of two different metrics has resolved
C9_Witness ==
  /\ EvaluateOfValidMetrics
  /\ Len(reqs) = 2
  /\ Get(call.args[1].kids[1].v, kId) # Get(call.args[1].kids[2].v, kId)
  /\ op.status = "fulfilled"

\* the limit a list operation was called with
LimitGiven == OptionOf(call.args[1], kLimit)

\* C10: getMetrics and getEvaluations with a limit above 1000 reject
\* without a call to fetch; with a limit that is an integer in 1..1000, or
\* with none (100 is then sent), and arguments that are valid otherwise on
\* a client that holds an API key, the one call to fetch is made.
C10_LimitCeiling ==
  call.name \in {"getMetrics", "getEvaluations"} =>
    /\ (LimitGiven.t = "number" /\ NumGreater(LimitGiven, MAX_GET_LIMIT))
         => (op.status = "rejected" /\ fetchLog = <<>>)
    /\ (/\ \/ LimitGiven.t = "undefined"
           \/ IsInteger(LimitGiven) /\ LimitGiven.n \in 1..MAX_GET_LIMIT
        /\ ValidatorVerdict = NoError
        /\ ~processGetOptionsThrows(call.args[1])
        /\ ~getAuthHeaderThrows)
         => /\ Len(fetchLog) = 1
            /\ fetchLog[1].method = "GET"
            /\ \E j \in 1..Len(fetchLog[1].url.query) :
                 fetchLog[1].url.query[j] =
                   Entry(kLimit, Word(ToString(IF LimitGiven.t = "undefined"
                                                THEN DEFAULT_GET_LIMIT ELSE LimitGiven.n)))

\* getMetrics was called with limit 1001 and arguments valid otherwise, by a
\* client that holds an API key, and has rejected
C10_Witness ==
  /\ call.name = "getMetrics"
  /\ LimitGiven = JsNumber(MAX_GET_LIMIT + 1)
  /\ ValidatorVerdict = NoError
  /\ ~getAuthHeaderThrows
  /\ op = Rejected(LimitExceeded)

\* the update object an update operation was called with
UpdateGiven == call.args[2]
\* every field of the update object is undefined (the empty object included)
EveryFieldUndefined(update) ==
  /\ update.t = "object"
  /\ \A i \in 1..Len(update.kids) : update.kids[i].v = JsUndefined
NoFieldGiven == ValidationError("At least one field must be provided.")

\* C11: updateMetric and updateEvaluation with an update object whose every
\* field is undefined (the empty object included) reject with a
\* ValidationError and no call to fetch is issued; an update object with a
\* defined field is not rejected by the at-least-one-field check, and when
\* its fields and the id are valid the operation does not reject with a
\* ValidationError at all.
C11_UpdateNeedsOneField ==
  call.name \in {"updateMetric", "updateEvaluation"} =>
    /\ EveryFieldUndefined(UpdateGiven) =>
         /\ op.status = "rejected"
         /\ op.error.cls = "ValidationError"
         /\ op.error.kind = Kind("ValidationError")
         /\ fetchLog = <<>>
         /\ validateId(call.args[1], "ID") = NoError => op.error = NoFieldGiven
    /\ (UpdateGiven.t = "object" /\ ~EveryFieldUndefined(UpdateGiven)) =>
         /\ checkAtLeastOneFieldGiven(UpdateGiven) = NoError
         /\ op # Rejected(NoFieldGiven)
         /\ ValidatorVerdict = NoError =>
              ~(op.status = "rejected" /\ op.error.cls = "ValidationError")

\* updateMetric was called with a valid id and {name: undefined}, and has
\* rejected with the error of the at-least-one-field check
C11_Witness ==
  /\ call.name = "updateMetric"
  /\ UpdateGiven = Obj1(kName, JsUndefined)
  /\ op = Rejected(NoFieldGiven)
  /\ fetchLog = <<>>

\* updateEvaluation was called with a valid id and an update that gives
\* valid properties, by a client that holds an API key, and the PUT was sent
C11_WitnessPasses ==
  /\ call.name = "updateEvaluation"
  /\ ~EveryFieldUndefined(UpdateGiven)
  /\ ValidatorVerdict = NoError
  /\ Len(fetchLog) = 1
  /\ fetchLog[1].method = "PUT"

\* a configuration value that was given: a string that is not empty
NonEmptyString(v) == v.t = "string" /\ Len(v.s) > 0
\* neither the constructor option nor MANDOLINE_API_KEY gave a key
NoKeyGiven ==
  /\ ~NonEmptyString(OptionOf(constructed.options, <<"api", "K", "ey">>))
  /\ ~NonEmptyString(constructed.env.MANDOLINE_API_KEY)
\* the evaluation evaluate creates for its i-th metric
EvaluationCreateOf(i) ==
  JsObject(<<Entry(kMetricId, Get(call.args[1].kids[i].v, kId)),
             Entry(kPrompt, call.args[2]), Entry(kResponse, call.args[3]),
             Entry(kProperties, call.args[4])>>)
\* an operation was called with input that no validator, filter check or
\* limit ceiling rejects
OtherwiseValidInput ==
  /\ call.name # "none"
  /\ ValidatorVerdict = NoError
  /\ call.name \in {"getMetrics", "getEvaluations"} =>
       /\ ~(OptionOf(call.args[1], kFilters).t \in {"string", "number", "boolean"})
       /\ ~(LimitGiven.t = "number" /\ NumGreater(LimitGiven, MAX_GET_LIMIT))
  /\ call.name = "evaluate" =>
       \A i \in 1..Len(call.args[1].kids) :
         validateEvaluationCreate(EvaluationCreateOf(i)) = NoError
EvaluateOfNoMetrics == call.name = "evaluate" /\ call.args[1] = JsArray(<<>>)

FirstGiven(a, b, fallback) ==
  IF NonEmptyString(a) THEN a ELSE IF NonEmptyString(b) THEN b ELSE fallback
ResolvedApiKey ==
  FirstGiven(OptionOf(constructed.options, <<"api", "K", "ey">>),
             constructed.env.MANDOLINE_API_KEY, JsString(<<>>))
ResolvedBaseUrl ==
  FirstGiven(OptionOf(constructed.options, <<"api", "B", "ase", "U", "rl">>),
             constructed.env.MANDOLINE_API_BASE_URL,
             JsString(<<"https://mandoline-api.fly.dev/v1">>))
\* a timeout option (a positive number) when given, else 300000
ResolvedTimeout(name) ==
  IF OptionOf(constructed.options, name).t = "number"
  THEN OptionOf(constructed.options, name).n ELSE 300000

\* C13: the client's key is the apiKey option, else MANDOLINE_API_KEY as it
\* was at construction; its base URL the apiBaseUrl option, else
\* MANDOLINE_API_BASE_URL as it was at construction, else the production
\* URL; each timeout the option, else 300000 (first non-empty wins). Every
\* request is sent to that base URL with that key, whatever the
\* environment has become since the construction.
C13_ConfigurationPrecedence ==
  /\ apiKey = ResolvedApiKey
  /\ requestConfig.apiBaseUrl = ResolvedBaseUrl
  /\ requestConfig.connectTimeout = ResolvedTimeout(<<"connect", "T", "imeout">>)
  /\ requestConfig.rwpTimeout = ResolvedTimeout(<<"rwp", "T", "imeout">>)
  /\ \A i \in 1..Len(fetchLog) :
       /\ fetchLog[i].url.base = ResolvedBaseUrl
       /\ fetchLog[i].headers = JsObject(<<Entry(<<"X-API-KEY">>, ResolvedApiKey)>>)

\* a client made with explicit key and URL while the environment held
\* others, whose environment lost both afterwards, has sent a request with
\* the explicit key to the explicit URL
C13_Witness ==
  /\ OptionOf(constructed.options, <<"api", "K", "ey">>) = Word("test_api_key")
  /\ OptionOf(constructed.options, <<"api", "B", "ase", "U", "rl">>) = Word("https://test.api.com")
  /\ constructed.env.MANDOLINE_API_KEY = Word("env_test_api_key")
  /\ constructed.env.MANDOLINE_API_BASE_URL = Word("https://env.test.api.com")
  /\ env = EmptyEnv
  /\ Len(fetchLog) = 1
  /\ fetchLog[1].url.base = Word("https://test.api.com")
  /\ fetchLog[1].headers = JsObject(<<Entry(<<"X-API-KEY">>, Word("test_api_key"))>>)

\* a client made with no options from an environment that held a key and a
\* URL, whose environment was emptied afterwards, has sent a request with
\* the environment's key to the environment's URL
C13_WitnessEnv ==
  /\ constructed.options = JsObject(<<>>)
  /\ constructed.env.MANDOLINE_API_KEY = Word("env_test_api_key")
  /\ env = EmptyEnv
  /\ Len(fetchLog) = 1
  /\ fetchLog[1].url.base = Word("https://env.test.api.com")
  /\ fetchLog[1].headers = JsObject(<<Entry(<<"X-API-KEY">>, Word("env_test_api_key"))>>)

\* the options of a list call with tags replaced, and with tags left out
WithTags(options, tags) == JsObject(SetKey(options.kids, kTags, tags))
WithoutTags(options) == JsObject(SelectSeq(options.kids, LAMBDA e : e.k # kTags))
\* the URL getMetrics requests for the options
UrlOfGetMetrics(options) == getMetrics(options).fetches[1].url

\* C14 (as stated): getMetrics with tags: null and with tags: [] (all else
\* equal) request the same URL, whose query carries the "no tags" sentinel
\* tags=null, and that URL is not the one requested when tags is left out.
C14_NullAndEmptyTagsShareSentinel ==
  (/\ call.name = "getMetrics"
   /\ Len(fetchLog) = 1
   /\ OptionOf(call.args[1], kTags) \in {JsNull, JsArray(<<>>)}) =>
     /\ fetchLog[1].url = UrlOfGetMetrics(WithTags(call.args[1], JsNull))
     /\ fetchLog[1].url = UrlOfGetMetrics(WithTags(call.args[1], JsArray(<<>>)))
     /\ \E j \in 1..Len(fetchLog[1].url.query) :
          fetchLog[1].url.query[j] = Entry(kTags, Word("null"))
     /\ fetchLog[1].url # UrlOfGetMetrics(WithoutTags(call.args[1]))

\* the response handleError was called with, and the detail of its body
ResponseGiven == call.args[1]
DetailGiven ==
  IF ResponseGiven.body.json /\ ResponseGiven.body.value.t = "object"
  THEN Get(ResponseGiven.body.value, <<"detail">>) ELSE JsUndefined
DetailTypeGiven == Get(DetailGiven, <<"type">>)
DetailMessageGiven == Get(DetailGiven, <<"message">>)
\* the error handleError resolved to
Classified == op.value
DefaultMessage(kind) ==
  CASE kind = Word("ValidationError") -> Word("Validation error")
    [] kind = Word("RateLimitExceeded") -> Word("Rate limit exceeded")
    [] kind = Word("RequestError") -> Word("Request error occurred")

\* C15: a response whose JSON body has detail.type ValidationError,
\* RateLimitExceeded or RequestError is classified to that kind, with the
\* message detail.message when that is a non-empty string and the default
\* message of the kind otherwise.
C15_StructuredDetailGivesItsKind ==
  (/\ call.name = "handleError"
   /\ DetailTypeGiven \in {Word("ValidationError"), Word("RateLimitExceeded"),
                           Word("RequestError")}) =>
     /\ op.status = "fulfilled"
     /\ Classified.cls = "MandolineError"
     /\ Classified.kind = DetailTypeGiven
     /\ Classified.message = IF NonEmptyString(DetailMessageGiven)
                             THEN DetailMessageGiven
                             ELSE DefaultMessage(DetailTypeGiven)

\* status 429 with detail {type: RateLimitExceeded, message: "slow down"}
\* was classified as RateLimitExceeded with the message "slow down"
C15_Witness ==
  /\ call.name = "handleError"
  /\ ResponseGiven.status = 429
  /\ DetailGiven = Obj2(<<"type">>, Word("RateLimitExceeded"), <<"message">>, Word("slow down"))
  /\ Classified.kind = Word("RateLimitExceeded")
  /\ Classified.message = Word("slow down")

\* C16 (as stated): every response with status 429 is classified as
\* RateLimitExceeded, whatever its body.
C16_Every429IsRateLimitExceeded ==
  (call.name = "handleError" /\ ResponseGiven.status = 429) =>
     Classified.kind = Word("RateLimitExceeded")

\* C17 (as stated): a response whose body is not JSON, or is JSON without a
\* detail, or whose detail has no type that is one of the kinds, is
\* classified as HTTPError with the status, the status text and the raw
\* text of the response.
C17_UnrecognisedBodyIsHTTPError ==
  (/\ call.name = "handleError"
   /\ DetailTypeGiven \notin {Word(k) : k \in MandolineErrorType}) =>
     /\ Classified.kind = Word("HTTPError")
     /\ Classified.statusCode = ResponseGiven.status
     /\ Classified.statusText = ResponseGiven.statusText
     /\ Classified.responseText = Word(ResponseGiven.body.text)

\* C18 (as stated): whatever handleError is given - a response with any
\* body, an Error, any other thrown value - it resolves to an error whose
\* kind is one of the six kinds and whose message is a string.
C18_KindIsOneOfSix ==
  call.name \in {"handleError", "handleErrorThrown"} =>
     /\ op.status = "fulfilled"
     /\ Classified.kind \in {Word(k) : k \in MandolineErrorType}
     /\ Classified.message.t = "string"

\* the mapping a conversion was called with
MappingGiven == call.args[1]
RECURSIVE HasPropertiesSubtree(_)
HasPropertiesSubtree(value) ==
  \E i \in 1..Len(value.kids) :
    \/ value.t = "object" /\ value.kids[i].k = <<"properties">>
    \/ HasPropertiesSubtree(value.kids[i].v)
\* the key holds an underscore followed by a lowercase letter
HasSnakeJoint(key) ==
  \E i \in 1..(Len(key) - 1) :
    /\ key[i] = "_"
    /\ \E j \in 1..Len(LowerSeq) : LowerSeq[j] = key[i + 1]
RECURSIVE HasSnakeKey(_)
HasSnakeKey(value) ==
  \E i \in 1..Len(value.kids) :
    \/ value.t = "object" /\ HasSnakeJoint(value.kids[i].k)
    \/ HasSnakeKey(value.kids[i].v)

\* C19 (as stated): for a mapping whose keys are valid identifiers and that
\* holds no properties subtree, objectToCamelCase(objectToSnakeCase(m)) = m.
C19_RoundTripOfIdentifierKeys ==
  (/\ call.name = "objectToCamelCase(objectToSnakeCase)"
   /\ ~HasPropertiesSubtree(MappingGiven)) =>
     op.value = MappingGiven

\* C19 (amended): for a mapping that holds no properties subtree and none of
\* whose keys, at any level, holds an underscore followed by a lowercase
\* letter, objectToCamelCase(objectToSnakeCase(m)) = m.
C19_RoundTripOfLocalKeys ==
  (/\ call.name = "objectToCamelCase(objectToSnakeCase)"
   /\ ~HasPropertiesSubtree(MappingGiven)
   /\ ~HasSnakeKey(MappingGiven)) =>
     op.value = MappingGiven

\* {createdAt: [{metricId: 1}, null]} went to wire case and back
C19_Witness ==
  /\ call.name = "objectToCamelCase(objectToSnakeCase)"
  /\ MappingGiven = Obj1(<<"created", "A", "t">>,
                         JsArray(<<Obj1(<<"metric", "I", "d">>, JsNumber(1)), JsNull>>))
  /\ op.value = MappingGiven

\* the key conversion of the transform that was called
ConvertedKey(key) ==
  IF call.name = "objectToSnakeCase" THEN toSnakeCase(key) ELSE toCamelCase(key)
\* after is before with every key outside a properties subtree converted,
\* and every properties entry kept as it is
RECURSIVE KeepsProperties(_, _)
KeepsProperties(before, after) ==
  /\ after.t = before.t /\ after.s = before.s /\ after.n = before.n
  /\ after.frac = before.frac
  /\ Len(after.kids) = Len(before.kids)
  /\ \A i \in 1..Len(before.kids) :
       IF before.t = "object" /\ before.kids[i].k = <<"properties">>
       THEN after.kids[i] = before.kids[i]
       ELSE /\ after.kids[i].k = ConvertedKey(before.kids[i].k)
            /\ KeepsProperties(before.kids[i].v, after.kids[i].v)

\* C20: objectToSnakeCase and objectToCamelCase keep every key named
\* properties, at any nesting level, with the whole value under it
\* unchanged, and convert the keys outside it.
C20_PropertiesSubtreeUnchanged ==
  (/\ call.name \in {"objectToSnakeCase", "objectToCamelCase"}
   /\ HasPropertiesSubtree(MappingGiven)) =>
     KeepsProperties(MappingGiven, op.value)

\* {metricId: 1, properties: {userKey: 1}} was converted to wire case: the
\* key outside became metric_id, the subtree kept userKey
C20_Witness ==
  /\ call.name = "objectToSnakeCase"
  /\ MappingGiven = Obj2(<<"metric", "I", "d">>, JsNumber(1),
                         kProperties, Obj1(<<"user", "K", "ey">>, JsNumber(1)))
  /\ op.value = Obj2(<<"metric", "_", "i", "d">>, JsNumber(1),
                     kProperties, Obj1(<<"user", "K", "ey">>, JsNumber(1)))

\* the skip a list operation was called with
SkipGiven == OptionOf(call.args[1], kSkip)
\* omitted, or an integer that is not negative / that is positive
SkipAcceptable == SkipGiven.t = "undefined" \/ (SkipGiven.t = "number" /\ ~SkipGiven.frac /\ SkipGiven.n >= 0)
LimitAcceptable == LimitGiven.t = "undefined" \/ (LimitGiven.t = "number" /\ ~LimitGiven.frac /\ LimitGiven.n >= 1)
SkipRejected == ValidationError("Skip must be a non-negative integer.")
LimitRejected == ValidationError("Limit must be a positive integer.")

\* C21: validatePaginationParams accepts skip exactly when it is omitted or
\* a non-negative integer and limit exactly when it is omitted or a positive
\* integer; getMetrics and getEvaluations apply the same rule: a skip or
\* limit outside it rejects the operation with the ValidationError of the
\* rule and no call to fetch is made, and one inside it is never rejected
\* with these errors.
C21_PaginationRule ==
  call.name \in {"getMetrics", "getEvaluations"} =>
    /\ ~SkipAcceptable =>
         /\ validatePaginationParams(SkipGiven, LimitGiven) = SkipRejected
         /\ op = Rejected(SkipRejected)
         /\ fetchLog = <<>>
    /\ (SkipAcceptable /\ ~LimitAcceptable) =>
         /\ validatePaginationParams(SkipGiven, LimitGiven) = LimitRejected
         /\ op = Rejected(LimitRejected)
         /\ fetchLog = <<>>
    /\ (SkipAcceptable /\ LimitAcceptable) =>
         /\ validatePaginationParams(SkipGiven, LimitGiven) = NoError
         /\ op \notin {Rejected(SkipRejected), Rejected(LimitRejected)}

\* getEvaluations was called with skip 0 and limit 1.5 and has rejected with
\* the error of the limit
C21_Witness ==
  /\ call.name = "getEvaluations"
  /\ SkipGiven = JsNumber(0)
  /\ LimitGiven = JsHalf(1)
  /\ op = Rejected(LimitRejected)
  /\ fetchLog = <<>>

\* the properties and the filters an operation was called with
PropertiesGiven ==
  CASE call.name = "createEvaluation" -> OptionOf(call.args[1], kProperties)
    [] call.name = "updateEvaluation" -> OptionOf(call.args[2], kProperties)
    [] call.name = "getEvaluations" -> OptionOf(call.args[1], kProperties)
    [] OTHER -> JsUndefined
FiltersGiven ==
  IF call.name \in {"getMetrics", "getEvaluations"}
  THEN OptionOf(call.args[1], kFilters) ELSE JsUndefined
\* value is made of strings, numbers, booleans, null, arrays and plain
\* objects only, at every depth
RECURSIVE PlainlyComposed(_)
PlainlyComposed(value) ==
  \/ value.t \in {"string", "number", "boolean", "null"}
  \/ /\ value.t = "array" \/ (value.t = "object" /\ value.s = <<>>)
     /\ \A i \in 1..Len(value.kids) : PlainlyComposed(value.kids[i].v)
\* an operation given the mapping rejects with a ValidationError without a
\* call to fetch unless the mapping is undefined, null or plainly composed
OnlyPlainReachesFetch(mapping) ==
  (mapping.t \notin {"undefined", "null"} /\ ~PlainlyComposed(mapping)) =>
     /\ op.status = "rejected"
     /\ op.error.cls = "ValidationError"
     /\ fetchLog = <<>>

\* C22 (as stated): a properties or filters mapping that holds, at any
\* depth, undefined, a function or an object that is not plain is rejected
\* with a ValidationError before any call to fetch, so that every such
\* mapping sent is made of strings, numbers, booleans, null, arrays and
\* plain objects.
C22_OnlySerializableMappingsReachFetch ==
  /\ OnlyPlainReachesFetch(PropertiesGiven)
  /\ OnlyPlainReachesFetch(FiltersGiven)

\* the timers of a settled request that are still armed
RwpTimerLeftArmed(i) == reqs[i].phase = "settled" /\ reqs[i].rwpTimer = "armed"
ConnectTimerLeftArmed(i) == reqs[i].phase = "settled" /\ reqs[i].connectSignal = "armed"
\* the controller of a settled request can still be aborted by its timer
ControllerCanStillFire(i) == RwpTimerLeftArmed(i) /\ reqs[i].controller = "idle"

\* C23 (as stated): once the promise of a request has settled, on any exit
\* path, neither the rwp timer nor the connect-timeout timer of the request
\* is armed, and its abort controller cannot fire later.
C23_NoTimerArmedAfterSettle ==
  \A i \in 1..Len(reqs) :
    /\ ~RwpTimerLeftArmed(i)
    /\ ~ConnectTimerLeftArmed(i)
    /\ ~ControllerCanStillFire(i)

\* evaluate was called on a client with an API key with a list in which the
\* id of some metric is no UUID v4, or with a prompt or response that is no
\* non-empty string for a list that is not empty
EvaluateGivenInvalid ==
  /\ call.name = "evaluate"
  /\ ~Falsy(apiKey)
  /\ \E i \in 1..Len(call.args[1].kids) :
       \/ validateId(Get(call.args[1].kids[i].v, kId), "Evaluation metricId") # NoError
       \/ validateString(call.args[2], "Evaluation prompt") # NoError
       \/ validateString(call.args[3], "Evaluation response") # NoError

\* C24 (as stated): evaluate called with a metric of invalid id, or with an
\* invalid prompt or response, rejects with ValidationError, and fetch is
\* called for no metric of the list, the valid ones before the invalid one
\* included.
C24_InvalidEvaluateIssuesNoCreate ==
  EvaluateGivenInvalid =>
     /\ op.status = "rejected"
     /\ op.error.cls = "ValidationError"
     /\ fetchLog = <<>>

\* a request has its own timers and its own signal: it was aborted only when
\* its own connect signal fired, and its controller only by its own timer
OwnTimersOnly ==
  \A i \in 1..Len(reqs) :
    /\ reqs[i].abortedIn # "none" <=> reqs[i].connectSignal = "fired"
    /\ reqs[i].controller = "aborted" <=> reqs[i].rwpTimer = "fired"
    /\ (reqs[i].promise.status = "rejected"
          /\ (reqs[i].promise.error.kind = Kind("TimeoutError")
               \/ reqs[i].promise.error = AbortError))
         => reqs[i].connectSignal = "fired"

\* a step of the transport or of a timer changes one request, and a request
\* that has settled keeps its promise
OneRequestPerStep ==
  Len(reqs') = Len(reqs) =>
    /\ \A i, j \in 1..Len(reqs) :
         (i # j /\ reqs'[i] # reqs[i]) => reqs'[j] = reqs[j]
    /\ \A i \in 1..Len(reqs) :
         reqs[i].phase = "settled" => reqs'[i].promise = reqs[i].promise

\* C25: requests that run concurrently are independent: the failure or the
\* timeout of one request neither aborts nor settles a sibling, also after
\* evaluate has rejected on the first failure, and the timers of a request
\* act on that request only.
C25_RequestsAreIndependent == []OwnTimersOnly /\ [][OneRequestPerStep]_vars

\* evaluate has rejected on the timeout of its first request while the
\* second is still in flight
C25_Witness ==
  /\ call.name = "evaluate"
  /\ Len(reqs) = 2
  /\ op.status = "rejected"
  /\ reqs[1].promise = op
  /\ op.error.kind = Kind("TimeoutError")
  /\ reqs[2].entered
  /\ reqs[2].phase # "settled"

\* handleError was given a MandolineError: a ValidationError or the error an
\* earlier handleError returned
GivenClassifiedError ==
  /\ call.name \in {"handleErrorThrown", "handleError(handleError)"}
  /\ IsMandolineError(call.args[1])

\* C26: handleError given a MandolineError (a ValidationError included)
\* returns that error, kind, message and details unchanged, and logs no
\* line for it; handleError of the result of handleError is that result.
C26_HandleErrorIsIdempotent ==
  /\ GivenClassifiedError =>
       /\ op = Fulfilled(call.args[1])
       /\ reqs[Len(reqs)].logged = <<>>
  /\ call.name = "handleError(handleError)" =>
       /\ reqs[1].promise = Fulfilled(call.args[1])
       /\ op = reqs[1].promise

\* the error made from a 404 response, which was logged when it was made,
\* was given to handleError again
C26_Witness ==
  /\ call.name = "handleError(handleError)"
  /\ Len(reqs) = 2
  /\ reqs[1].logged # <<>>
  /\ op.status = "fulfilled"
  /\ op.value.kind = Kind("HTTPError")
  /\ op.value.statusCode = 404

\* the value handleError was given when it was thrown and is no Response
ThrownGiven == call.args[1]
\* handleError was given an Error that is no MandolineError
GivenError ==
  /\ call.name = "handleErrorThrown"
  /\ IsError(ThrownGiven) /\ ~IsMandolineError(ThrownGiven)
\* handleError was given a thrown value that is no Error
GivenNonError == call.name = "handleErrorThrown" /\ ~IsError(ThrownGiven)

\* an Error is a timeout exactly when it is an abort fault, and a
\* GenericError with its own message and stack otherwise
ErrorsClassifiedByAbort ==
  GivenError =>
     /\ op.status = "fulfilled"
     /\ op.value.kind = Kind("TimeoutError") <=> ThrownGiven.cls = "AbortError"
     /\ ThrownGiven.cls # "AbortError" =>
          /\ op.value.kind = Kind("GenericError")
          /\ op.value.message = ThrownGiven.message
          /\ op.value.stack = ThrownGiven.stack

\* C27 (as stated): a thrown Error is classified as TimeoutError exactly
\* when it is an abort fault and as GenericError with its message and stack
\* otherwise; a thrown value that is no MandolineError, no Response and no
\* Error is classified as GenericError.
C27_ThrownValuesClassified ==
  /\ ErrorsClassifiedByAbort
  /\ GivenNonError =>
       /\ op.status = "fulfilled"
       /\ op.value.kind = Kind("GenericError")

\* C28 (as stated): whatever a composite validator is given, null and
\* values that are no objects as options, filters, properties or update
\* included, it returns or throws a ValidationError, and nothing else.
C28_ValidatorsThrowOnlyValidationError ==
  ValidatorVerdict.cls \in {"none", "ValidationError"}

====
